---- MODULE Spec2Model ----
(***************************************************************************)
(* Verification model of the Antigravity2api gateway.                      *)
(*                                                                         *)
(*  - AmazonQStreamHandler (amq2api/stream_handler_new.py): translation of *)
(*    the CodeWhisperer event stream into Claude SSE events.               *)
(*  - handle_gemini_stream (amq2api/gemini/handler.py): translation of the *)
(*    Gemini SSE stream into Claude SSE events.                            *)
(*  - create_gemini_message (amq2api/main.py) with the account store and   *)
(*    quota ledger of amq2api/account_manager.py.                          *)
(***************************************************************************)
EXTENDS Integers, Sequences, FiniteSets, TLC

VARIABLES
    aq,         \* fields of the AmazonQStreamHandler instance
    aqOut,      \* Claude SSE events yielded by handle_stream, in order
    aqPhase,    \* "streaming" while the upstream loop runs, "done" after message_stop,
                \* "raised" when handle_stream ended with an exception
    gem,        \* locals of handle_gemini_stream
    gemOut,     \* Claude SSE events yielded by handle_gemini_stream, in order
    gemPhase,   \* "init" | "streaming" | "done" | "aborted"
    accounts,   \* the accounts table: account id -> row
    now,        \* the clock (datetime.now)
    req,        \* the in-flight /v1/gemini/messages requests: handler -> locals
    nreq,       \* number of requests received so far
    marks,      \* history: account, requested model -> resetTime of the exhaustion
                \* mark made for it since the account's last quota snapshot
    msg,        \* the in-flight /v1/messages requests: handler -> locals
    nmsg,       \* number of /v1/messages and PATCH /v2/accounts requests received so far
    issued,     \* number of access tokens the OIDC endpoint has issued
    kiro,       \* the ki2api TokenManager: tokens and current_index
    kcall,      \* the in-flight /v1/chat/completions call of ki2api: its locals
    nkcall,     \* number of ki2api requests received so far
    oai,        \* locals of generate_stream (ki2api create_streaming_response)
    oaiOut,     \* the chunks generate_stream has yielded, in order
    oaiPhase,   \* "streaming" | "done" | "aborted"
    oaiSeen,    \* number of upstream events delivered so far
    cw,         \* the /v1/messages request on the Amazon Q channel: its messages,
                \* the history of its CodeWhisperer request, its outcome
    cur,        \* the content blocks of that request's last message and the
                \* toolResults of the currentMessage built from them
    ledger,     \* one account row and the two handlers that write it
    auth,       \* a call of get_auth_headers_for_account: the stored token, the clock,
                \* the token returned
    oreq,        \* a /v1/chat/completions request of ki2api and the history of the
                \* CodeWhisperer request built from it
    kp,          \* the CodeWhispererStreamParser of ki2api: buffer, error_count, position in parse
    ep,          \* amq2api parse_stream: frames sent, buffer, events yielded
    cfg         \* amq2api global configuration, its lock and the tasks calling it

aqVars == <<aq, aqOut, aqPhase>>

gemVars == <<gem, gemOut, gemPhase>>

gwVars == <<accounts, now, req, nreq, marks>>

msgVars == <<msg, nmsg, issued>>

kiroVars == <<kiro, kcall, nkcall>>

\* the variables of the components other than the stream translators and the
\* two amq2api gateways
oaiVars == <<oai, oaiOut, oaiPhase, oaiSeen>>

cwVars == <<cw>>

curVars == <<cur>>

\* the variables of the account-row writers
ledgerVars == <<ledger>>

\* the variables of the token check
authVars == <<auth>>

\* the variables of the request builder of ki2api
oreqVars == <<oreq>>

kpVars == <<kp>>

epVars == <<ep>>

cfgVars == <<cfg>>

tailVars == <<ledgerVars, authVars, oreqVars, kpVars, epVars, cfgVars>>

laterVars == <<kiroVars, oaiVars, cwVars, curVars, tailVars>>

\* the variables of the components other than the two stream translators and
\* the Gemini gateway
extVars == <<msgVars, laterVars>>

vars == <<aq, aqOut, aqPhase, gem, gemOut, gemPhase, accounts, now, req, nreq, marks,
          msg, nmsg, issued, kiro, kcall, nkcall,
          oai, oaiOut, oaiPhase, oaiSeen, cw, cur, ledger, auth, oreq, kp, ep, cfg>>

\* the variables of the components before the account-row writers
coreVars == <<aqVars, gemVars, gwVars, msgVars, kiroVars, oaiVars, cwVars, curVars>>

None == "None"

(***************************************************************************)
(* Claude SSE events.  One record shape for every event type:              *)
(*   index : content block index (-1 where the event has none)             *)
(*   kind  : block type of a start, delta type of a delta                  *)
(*   id    : toolUseId of a tool_use start; for an input_json_delta the    *)
(*           toolUseId of the upstream event whose fragment it carries     *)
(*   usage : <<input_tokens, output_tokens>> where the event has a usage   *)
(***************************************************************************)
SSE(t, i, k, id, u) == [type |-> t, index |-> i, kind |-> k, id |-> id, usage |-> u]

build_claude_message_start_event(input_tokens) ==
    SSE("message_start", -1, None, None, <<input_tokens, 0>>)

build_claude_ping_event == SSE("ping", -1, None, None, <<>>)

build_claude_content_block_start_event(index) ==
    SSE("content_block_start", index, "text", None, <<>>)

build_claude_content_block_delta_event(index) ==
    SSE("content_block_delta", index, "text_delta", None, <<>>)

build_claude_content_block_stop_event(index) ==
    SSE("content_block_stop", index, None, None, <<>>)

build_claude_tool_use_start_event(index, tool_use_id) ==
    SSE("content_block_start", index, "tool_use", tool_use_id, <<>>)

build_claude_tool_use_input_delta_event(index, fragment) ==
    SSE("content_block_delta", index, "input_json_delta", fragment, <<>>)

\* One string holding a message_delta followed by a message_stop.
build_claude_message_stop_event(input_tokens, output_tokens) ==
    << SSE("message_delta", -1, None, None, <<input_tokens, output_tokens>>),
       SSE("message_stop", -1, None, None, <<input_tokens, output_tokens>>) >>

(***************************************************************************)
(* Upstream CodeWhisperer events, as extract_event_info returns them.      *)
(***************************************************************************)
MaxOut == 9

ToolUseIds == {"t1", "t2"}

\* payloads of toolUseEvent: toolUseId (or absent), name present, input
\* fragment present, stop flag
ToolUsePayloads ==
    [toolUseId : ToolUseIds \cup {None}, name : BOOLEAN, input : BOOLEAN, stop : BOOLEAN]

\* payloads of assistantResponseEvent: non-empty content, non-empty toolUses
AssistantPayloads == [content : BOOLEAN, toolUses : BOOLEAN]

\* parse_amazonq_event: the standard event object of an event, or None
parse_amazonq_event(event_type, payload) ==
    CASE event_type = "initial-response" -> "MessageStart"
      [] event_type = "assistantResponseEvent" ->
            IF payload.content THEN "ContentBlockDelta"
            ELSE IF payload.toolUses THEN "AssistantResponseEnd"
            ELSE None
      [] OTHER -> None

AQInit ==
    /\ aq = [ content_block_index      |-> -1,
              content_block_started    |-> FALSE,
              content_block_start_sent |-> FALSE,
              content_block_stop_sent  |-> FALSE,
              message_start_sent       |-> FALSE,
              current_tool_use         |-> None,
              tool_use_id              |-> None,
              tool_input_buffer        |-> 0,
              processed_tool_use_ids   |-> {},
              response_buffer          |-> 0,
              all_tool_inputs          |-> 0,
              input_tokens             |-> 0 ]
    /\ aqOut = <<>>
    /\ aqPhase = "streaming"

\* room for everything one upstream event can yield
AQRoom == aqPhase = "streaming" /\ Len(aqOut) + 4 <= MaxOut

\* handle_stream, branch isinstance(event, MessageStart)
HandleMessageStart ==
    /\ AQRoom
    /\ parse_amazonq_event("initial-response", [conversationId |-> TRUE]) = "MessageStart"
    /\ IF ~aq.message_start_sent
       THEN /\ aqOut' = aqOut \o << build_claude_message_start_event(aq.input_tokens),
                                   build_claude_ping_event >>
            /\ aq' = [aq EXCEPT !.message_start_sent = TRUE]
       ELSE UNCHANGED <<aq, aqOut>>
    /\ UNCHANGED <<aqPhase, gemVars, gwVars, extVars>>

\* the tool_use block closed by a text delta, if any
CloseToolUse(h) == h.current_tool_use # None /\ ~h.content_block_stop_sent

\* handle_stream, branch isinstance(event, ContentBlockDelta)
HandleContentBlockDelta ==
    /\ AQRoom
    /\ \E p \in AssistantPayloads :
         /\ parse_amazonq_event("assistantResponseEvent", p) = "ContentBlockDelta"
         /\ LET closes == CloseToolUse(aq)
                out1 == IF closes
                        THEN <<build_claude_content_block_stop_event(aq.content_block_index)>>
                        ELSE <<>>
                h1 == IF closes
                      THEN [aq EXCEPT !.content_block_stop_sent = TRUE,
                                      !.current_tool_use = None]
                      ELSE aq
                opens == ~h1.content_block_start_sent
                h2 == IF opens
                      THEN [h1 EXCEPT !.content_block_index = @ + 1,
                                      !.content_block_start_sent = TRUE,
                                      !.content_block_started = TRUE]
                      ELSE h1
                out2 == IF opens
                        THEN <<build_claude_content_block_start_event(h2.content_block_index)>>
                        ELSE <<>>
                h3 == [h2 EXCEPT !.response_buffer = @ + 1]
                out3 == <<build_claude_content_block_delta_event(h3.content_block_index)>>
            IN /\ aq' = h3
               /\ aqOut' = aqOut \o out1 \o out2 \o out3
    /\ UNCHANGED <<aqPhase, gemVars, gwVars, extVars>>

\* handle_stream, branch isinstance(event, AssistantResponseEnd)
HandleAssistantResponseEnd ==
    /\ AQRoom
    /\ \E p \in AssistantPayloads :
         /\ parse_amazonq_event("assistantResponseEvent", p) = "AssistantResponseEnd"
         /\ IF aq.content_block_started /\ ~aq.content_block_stop_sent
            THEN /\ aqOut' = Append(aqOut,
                         build_claude_content_block_stop_event(aq.content_block_index))
                 /\ aq' = [aq EXCEPT !.content_block_stop_sent = TRUE]
            ELSE UNCHANGED <<aq, aqOut>>
    /\ UNCHANGED <<aqPhase, gemVars, gwVars, extVars>>

\* _handle_tool_use_event: does the event start a new tool use?
StartsToolUse(h, p) == p.toolUseId # None /\ p.name /\ h.current_tool_use = None

\* _handle_tool_use_event: <<handler fields afterwards, events yielded>>
handle_tool_use_event(h, p) ==
    LET starts == StartsToolUse(h, p)
        closesText == starts /\ h.content_block_start_sent /\ ~h.content_block_stop_sent
        out1 == (IF closesText
                 THEN <<build_claude_content_block_stop_event(h.content_block_index)>>
                 ELSE <<>>)
                \o (IF starts
                    THEN <<build_claude_tool_use_start_event(h.content_block_index + 1,
                                                             p.toolUseId)>>
                    ELSE <<>>)
        h1 == IF starts
              THEN [h EXCEPT !.content_block_stop_sent = IF closesText THEN TRUE ELSE @,
                             !.processed_tool_use_ids = @ \cup {p.toolUseId},
                             !.content_block_index = @ + 1,
                             !.content_block_started = TRUE,
                             !.current_tool_use = p.toolUseId,
                             !.tool_use_id = p.toolUseId,
                             !.tool_input_buffer = 0]
              ELSE h
        accumulates == h1.current_tool_use # None /\ p.input
        out2 == IF accumulates
                THEN <<build_claude_tool_use_input_delta_event(h1.content_block_index,
                                                               p.toolUseId)>>
                ELSE <<>>
        h2 == IF accumulates THEN [h1 EXCEPT !.tool_input_buffer = @ + 1] ELSE h1
        stops == p.stop /\ h2.current_tool_use # None
        out3 == IF stops
                THEN <<build_claude_content_block_stop_event(h2.content_block_index)>>
                ELSE <<>>
        h3 == IF stops
              THEN [h2 EXCEPT !.all_tool_inputs = @ + h2.tool_input_buffer,
                              !.content_block_stop_sent = FALSE,
                              !.content_block_started = FALSE,
                              !.content_block_start_sent = FALSE,
                              !.current_tool_use = None,
                              !.tool_use_id = None,
                              !.tool_input_buffer = 0]
              ELSE h2
    IN <<h3, out1 \o out2 \o out3>>

\* handle_stream, branch event_type == 'toolUseEvent'
HandleToolUseEvent ==
    /\ AQRoom
    /\ \E p \in ToolUsePayloads :
         /\ parse_amazonq_event("toolUseEvent", p) = None
         /\ LET r == handle_tool_use_event(aq, p)
            IN /\ aq' = r[1]
               /\ aqOut' = aqOut \o r[2]
    /\ UNCHANGED <<aqPhase, gemVars, gwVars, extVars>>

\* parse_message: payload = json.loads(payload_data.decode('utf-8')), and the
\* bytes themselves when that raises JSONDecodeError or UnicodeDecodeError
parse_message_payload(payload_data) ==
    IF payload_data = "json" THEN "dict" ELSE "bytes"

\* json.dumps(event_info) in the f-string of the debug line of handle_stream:
\* TypeError when the payload is bytes
dumps_raises(payload) == payload = "bytes"

\* handle_stream receives the message of a frame whose payload is not UTF-8
\* JSON: the f-string of the debug line raises, the except clause logs and
\* re-raises, and the generator ends without closing events
HandleUndecodedFrame ==
    /\ aqPhase = "streaming"
    /\ dumps_raises(parse_message_payload("not_json"))
    /\ aqPhase' = "raised"
    /\ UNCHANGED <<aq, aqOut, gemVars, gwVars, extVars>>

\* handle_stream after the upstream loop: the closing events
HandleStreamEnd ==
    /\ aqPhase = "streaming"
    /\ LET closes == aq.content_block_started /\ ~aq.content_block_stop_sent
           out1 == IF closes
                   THEN <<build_claude_content_block_stop_event(aq.content_block_index)>>
                   ELSE <<>>
           output_tokens == aq.response_buffer + aq.all_tool_inputs
       IN /\ aq' = [aq EXCEPT !.content_block_stop_sent = IF closes THEN TRUE ELSE @]
          /\ aqOut' = aqOut \o out1
                        \o build_claude_message_stop_event(aq.input_tokens, output_tokens)
    /\ aqPhase' = "done"
    /\ UNCHANGED <<gemVars, gwVars, extVars>>

(***************************************************************************)
(* Properties of a Claude SSE event sequence.                              *)
(***************************************************************************)
Positions(o, t) == {p \in 1..Len(o) : o[p].type = t}

StopsOf(o, i) == {q \in Positions(o, "content_block_stop") : o[q].index = i}

DeltasOf(o, i) == {d \in Positions(o, "content_block_delta") : o[d].index = i}

\* the block started at position s is open just before position p
OpenAt(o, s, p) ==
    /\ s < p
    /\ o[s].type = "content_block_start"
    /\ \A q \in StopsOf(o, o[s].index) : ~(s < q /\ q < p)

\* a block of type k with index i is open just before position p
OpenBlock(o, p, i, k) ==
    \E s \in Positions(o, "content_block_start") :
        o[s].index = i /\ o[s].kind = k /\ OpenAt(o, s, p)

\* every start has exactly one stop of its index, after it and before
\* message_stop, and every delta of that index lies strictly between the two
BlocksPaired(o) ==
    \A s \in Positions(o, "content_block_start") :
        LET i == o[s].index
        IN /\ Cardinality(StopsOf(o, i)) = 1
           /\ \A q \in StopsOf(o, i) :
                /\ s < q
                /\ \A m \in Positions(o, "message_stop") : q < m
                /\ \A d \in DeltasOf(o, i) : s < d /\ d < q

ContentTypes ==
    {"content_block_start", "content_block_delta", "content_block_stop",
     "message_delta", "message_stop"}

\* C1: when handle_stream has finished, each content_block_start(i) it
\* yielded is followed by exactly one content_block_stop(i) before
\* message_stop, and every content_block_delta(i) lies strictly between them.
C1_BlocksPaired == aqPhase = "done" => BlocksPaired(aqOut)

\* C2: the stream holds exactly one message_start, and it precedes every
\* content_block_start, content_block_delta, content_block_stop,
\* message_delta and message_stop.
C2_OneMessageStartFirst ==
    /\ Cardinality(Positions(aqOut, "message_start")) <= 1
    /\ \A p \in 1..Len(aqOut) :
         aqOut[p].type \in ContentTypes =>
            \E q \in Positions(aqOut, "message_start") : q < p
    /\ aqPhase = "done" => Cardinality(Positions(aqOut, "message_start")) = 1

\* C3: every text_delta is yielded at the index of an open text block, every
\* input_json_delta at the index of an open tool_use block, and no tool_use
\* block is started while a text block is still open.
C3_NoInterleaving ==
    \A p \in 1..Len(aqOut) :
        LET e == aqOut[p]
        IN /\ (e.type = "content_block_delta" /\ e.kind = "text_delta")
                 => OpenBlock(aqOut, p, e.index, "text")
           /\ (e.type = "content_block_delta" /\ e.kind = "input_json_delta")
                 => OpenBlock(aqOut, p, e.index, "tool_use")
           /\ (e.type = "content_block_start" /\ e.kind = "tool_use")
                 => ~\E s \in Positions(aqOut, "content_block_start") :
                        aqOut[s].kind = "text" /\ OpenAt(aqOut, s, p)

\* C22: a tool_use content_block_start for a toolUseId that already has one
\* in the stream is yielded only when the earlier block has been stopped and
\* the repeated event bears content, that is, an input_json_delta of that
\* toolUseId follows the start at once.
C22_ToolUseOpenedOnce ==
    \A p, q \in Positions(aqOut, "content_block_start") :
        (/\ q < p
         /\ aqOut[q].kind = "tool_use"
         /\ aqOut[p].kind = "tool_use"
         /\ aqOut[q].id = aqOut[p].id)
            => /\ ~OpenAt(aqOut, q, p)
               /\ p < Len(aqOut)
               /\ aqOut[p + 1].kind = "input_json_delta"
               /\ aqOut[p + 1].id = aqOut[p].id

\* C31: every input_json_delta lies in an open tool_use block of its index,
\* and that block was opened for the toolUseId of the upstream fragment the
\* delta carries.
C31_FragmentInOwnBlock ==
    \A d \in Positions(aqOut, "content_block_delta") :
        aqOut[d].kind = "input_json_delta" =>
            \E s \in Positions(aqOut, "content_block_start") :
                /\ aqOut[s].index = aqOut[d].index
                /\ aqOut[s].kind = "tool_use"
                /\ OpenAt(aqOut, s, d)
                /\ aqOut[s].id = aqOut[d].id

\* C33: a frame whose payload is not valid UTF-8 JSON never ends the response
\* stream with an exception: the stream goes on to its later frames.
C33_UndecodedFrameKeepsStream == aqPhase # "raised"

(***************************************************************************)
(* handle_gemini_stream: Gemini SSE data events to Claude SSE events.      *)
(***************************************************************************)
MaxParts == 2

MaxGemOut == 8

TokenCounts == {1, 2}

\* a part with a non-empty text; a part with a functionCall and no (or an
\* empty) text; any other part
PartKinds == {"text", "functionCall", "other"}

PartSeqs == UNION {[1..n -> PartKinds] : n \in 0..MaxParts}

\* usageMetadata of a data event: absent, or <<promptTokenCount, candidatesTokenCount>>
UsageMetadata == {None} \cup (TokenCounts \X TokenCounts)

\* the decoded JSON of the data events of the upstream stream
GeminiData == [usageMetadata : UsageMetadata, parts : PartSeqs]

format_sse_event(event_type, index, kind, id, usage) ==
    SSE(event_type, index, kind, id, usage)

GemInit ==
    /\ gem = [ current_index  |-> -1,
               content_blocks |-> <<>>,
               input_tokens   |-> 0,
               output_tokens  |-> 0,
               upstream       |-> None ]  \* the last usageMetadata upstream sent
    /\ gemOut = <<>>
    /\ gemPhase = "init"

\* does a text part open a new text block?
OpensTextBlock(g) ==
    g.current_index = -1 \/ g.content_blocks[g.current_index + 1] # "text"

\* one text part: <<locals afterwards, events yielded>>
text_part(g) ==
    LET g1 == IF OpensTextBlock(g)
              THEN [g EXCEPT !.current_index = @ + 1,
                             !.content_blocks = Append(@, "text")]
              ELSE g
        out1 == IF OpensTextBlock(g)
                THEN <<format_sse_event("content_block_start", g1.current_index,
                                        "text", None, <<>>)>>
                ELSE <<>>
    IN << g1,
          Append(out1, format_sse_event("content_block_delta", g1.current_index,
                                        "text_delta", None, <<>>)) >>

\* one functionCall part: <<locals afterwards, events yielded>>
function_call_part(g) ==
    LET g1 == [g EXCEPT !.current_index = @ + 1,
                        !.content_blocks = Append(@, "tool_use")]
        i  == g1.current_index
    IN << g1,
          << format_sse_event("content_block_start", i, "tool_use", "toolu", <<>>),
             format_sse_event("content_block_delta", i, "input_json_delta", "toolu", <<>>),
             format_sse_event("content_block_stop", i, None, None, <<>>) >> >>

\* the loop over the parts of one data event; the loop over the trailing
\* buffer (inLoop = FALSE) handles text parts only
RECURSIVE process_parts(_, _, _)
process_parts(g, parts, inLoop) ==
    IF parts = <<>> THEN <<g, <<>>>>
    ELSE LET r == CASE Head(parts) = "text" -> text_part(g)
                    [] Head(parts) = "functionCall" /\ inLoop -> function_call_part(g)
                    [] OTHER -> <<g, <<>>>>
             rest == process_parts(r[1], Tail(parts), inLoop)
         IN <<rest[1], r[2] \o rest[2]>>

\* usageMetadata of a data event of the loop
read_usage(g, usageMetadata) ==
    IF usageMetadata = None THEN g
    ELSE [g EXCEPT !.input_tokens = usageMetadata[1],
                   !.output_tokens = usageMetadata[2]]

\* the usage of the final message_delta
message_delta_usage(g) == <<g.output_tokens, g.input_tokens>>

\* the first yield: message_start
GeminiMessageStart ==
    /\ gemPhase = "init"
    /\ gemOut' = <<format_sse_event("message_start", -1, None, None, <<0, 0>>)>>
    /\ gemPhase' = "streaming"
    /\ UNCHANGED <<aqVars, gem, gwVars, extVars>>

\* one complete "data: {...}" event of the upstream stream
GeminiDataEvent ==
    /\ gemPhase = "streaming"
    /\ \E d \in GeminiData :
         /\ Len(gemOut) + 3 * Len(d.parts) <= MaxGemOut
         /\ LET r == process_parts(read_usage(gem, d.usageMetadata), d.parts, TRUE)
            IN /\ gem' = [r[1] EXCEPT !.upstream = IF d.usageMetadata = None THEN @
                                                  ELSE d.usageMetadata]
               /\ gemOut' = gemOut \o r[2]
    /\ UNCHANGED <<aqVars, gemPhase, gwVars, extVars>>

\* an event that is skipped: no "data: " prefix, "[DONE]", or JSON that
\* does not parse
GeminiSkippedEvent ==
    /\ gemPhase = "streaming"
    /\ UNCHANGED vars

\* the upstream iterator raises (gemini_byte_stream raises HTTPException):
\* the exception leaves handle_gemini_stream, nothing more is yielded
GeminiUpstreamRaises ==
    /\ gemPhase = "streaming"
    /\ gemPhase' = "aborted"
    /\ UNCHANGED <<aqVars, gem, gemOut, gwVars, extVars>>

\* end of the upstream stream: the trailing buffer (a data event without its
\* terminator, or nothing), the stop of a last text block, message_delta and
\* message_stop
GeminiStreamEnd ==
    /\ gemPhase = "streaming"
    /\ \E trailing \in PartSeqs :
         LET r == process_parts(gem, trailing, FALSE)
             g == r[1]
             closes == g.current_index >= 0
                       /\ g.content_blocks[g.current_index + 1] = "text"
             out1 == IF closes
                     THEN <<format_sse_event("content_block_stop", g.current_index,
                                             None, None, <<>>)>>
                     ELSE <<>>
         IN /\ gem' = g
            /\ gemOut' = gemOut \o r[2] \o out1
                  \o << format_sse_event("message_delta", -1, None, None,
                                         message_delta_usage(g)),
                        format_sse_event("message_stop", -1, None, None, <<>>) >>
    /\ gemPhase' = "done"
    /\ UNCHANGED <<aqVars, gwVars, extVars>>

\* C39: the message_delta that ends the stream reports as input_tokens the
\* promptTokenCount and as output_tokens the candidatesTokenCount of the last
\* usageMetadata the upstream stream carried.
C39_FinalUsageIsUpstreamUsage ==
    (gemPhase = "done" /\ gem.upstream # None) =>
        \A p \in Positions(gemOut, "message_delta") : gemOut[p].usage = gem.upstream

\* C4: when handle_gemini_stream has finished, each content_block_start it
\* yielded is paired with exactly one content_block_stop of the same index
\* before message_stop, and no functionCall block is started while a text
\* block is still open.
C4_GeminiBlocksPaired ==
    gemPhase = "done" =>
        /\ BlocksPaired(gemOut)
        /\ \A p \in Positions(gemOut, "content_block_start") :
              gemOut[p].kind = "tool_use" =>
                 ~\E s \in Positions(gemOut, "content_block_start") :
                      gemOut[s].kind = "text" /\ OpenAt(gemOut, s, p)

(***************************************************************************)
(* The account store and its quota ledger (account_manager.py).            *)
(* Fractions are counted in hundredths: 0.03 is 3, 1.0 is 100.  Instants   *)
(* are clock ticks.  A resetTime is absent (kind "none"), a string that    *)
(* datetime.fromisoformat rejects or that cannot be compared with now      *)
(* (kind "malformed"), or an instant.                                      *)
(***************************************************************************)
MaxTime == 2

MaxRequests == 2

Handlers == {"h1"}

GeminiAccounts == {"A", "B"}

AmazonQAccounts == {"Q"}

Accounts == GeminiAccounts \cup AmazonQAccounts

NoResetTime == [kind |-> "none", at |-> 0]

MalformedResetTime == [kind |-> "malformed", at |-> 0]

Instant(t) == [kind |-> "instant", at |-> t]

\* the models of the Gemini provider that quota snapshots of the model report
SnapshotModels == {"claude-sonnet-4-5", "gemini-2.5-pro"}

\* the model names clients ask for
RequestModels == {"claude-sonnet-4.5", "claude-sonnet-4-5", "gemini-2.5-pro"}

supported_models ==
    {"gemini-2.5-flash", "gemini-2.5-flash-thinking", "gemini-2.5-pro",
     "gemini-3-pro-low", "gemini-3-pro-high", "gemini-2.5-flash-lite",
     "gemini-2.5-flash-image", "claude-sonnet-4-5", "claude-sonnet-4-5-thinking",
     "gpt-oss-120b-medium"}

map_claude_model_to_gemini(claude_model) ==
    IF claude_model \in supported_models THEN claude_model
    ELSE CASE claude_model = "claude-sonnet-4.5" -> "claude-sonnet-4-5"
           [] claude_model = "claude-3-5-sonnet-20241022" -> "claude-sonnet-4-5"
           [] claude_model = "claude-3-5-sonnet-20240620" -> "claude-sonnet-4-5"
           [] claude_model = "claude-opus-4" -> "gemini-3-pro-high"
           [] claude_model = "claude-haiku-4" -> "claude-haiku-4.5"
           [] claude_model = "claude-3-haiku-20240307" -> "gemini-2.5-flash"
           [] OTHER -> "claude-sonnet-4-5"

RateLimitThreshold == 3

FullFraction == 100

FullPercent == 100

OneHour == 1

\* model in creditsInfo.models
HasEntry(other, model) == model \in DOMAIN other.creditsInfo

\* reset_time parsed and now >= reset_time
ResetDue(resetTime, t) == resetTime.kind = "instant" /\ t >= resetTime.at

\* restore_model_quota_if_needed: does it write the entry back as full?
Restores(other, model, t) ==
    /\ HasEntry(other, model)
    /\ ~(other.creditsInfo[model].remainingFraction > 0)
    /\ ResetDue(other.creditsInfo[model].resetTime, t)

\* a restore that forgets remainingPercent
restored_entry_fraction_only(e) == [e EXCEPT !.remainingFraction = FullFraction]

\* restore_model_quota_if_needed: the entry it writes
restored_entry(e) ==
    [e EXCEPT !.remainingFraction = FullFraction, !.remainingPercent = FullPercent]

\* restore_model_quota_if_needed: the `other` that is in the store afterwards
restored_other(other, model, t) ==
    IF Restores(other, model, t)
    THEN [other EXCEPT !.creditsInfo[model] = restored_entry(@)]
    ELSE other

\* restore_model_quota_if_needed: its return value, for the row it reads
restore_model_quota_if_needed(other, model, t) ==
    \/ ~HasEntry(other, model)
    \/ other.creditsInfo[model].remainingFraction > 0
    \/ ResetDue(other.creditsInfo[model].resetTime, t)

\* is_model_available_for_account: does it call restore_model_quota_if_needed?
CallsRestore(account, model, t) ==
    /\ HasEntry(account.other, model)
    /\ ~(account.other.creditsInfo[model].remainingFraction > 0)
    /\ ResetDue(account.other.creditsInfo[model].resetTime, t)

\* an availability check that lets an empty quota pass (>= for >)
is_model_available_nonnegative(account, stored, model, t) ==
    \/ ~HasEntry(account.other, model)
    \/ account.other.creditsInfo[model].remainingFraction >= 0
    \/ /\ CallsRestore(account, model, t)
       /\ restore_model_quota_if_needed(stored, model, t)

\* is_model_available_for_account: its return value. `account` is the row the
\* caller holds, `stored` the `other` restore_model_quota_if_needed reads.
is_model_available_for_account(account, stored, model, t) ==
    \/ ~HasEntry(account.other, model)
    \/ account.other.creditsInfo[model].remainingFraction > 0
    \/ /\ CallsRestore(account, model, t)
       /\ restore_model_quota_if_needed(stored, model, t)

\* mark_model_exhausted: the `other` it writes
mark_model_exhausted(other, model, reset_time) ==
    [other EXCEPT !.creditsInfo =
        [m \in DOMAIN @ \cup {model} |->
            IF m = model
            THEN [remainingFraction |-> 0, remainingPercent |-> 0,
                  resetTime |-> reset_time]
            ELSE @[m]]]

\* list_enabled_accounts
list_enabled_accounts(db, account_type) ==
    {a \in DOMAIN db :
        db[a].enabled /\ (account_type = None \/ db[a].type = account_type)}

\* get_random_account("gemini", model): the accounts random.choice draws from
available_accounts(db, model, t) ==
    {a \in list_enabled_accounts(db, "gemini") :
        is_model_available_for_account(db[a], db[a].other, model, t)}

\* the table after the availability checks of get_random_account
after_availability_checks(db, model, t) ==
    [a \in DOMAIN db |->
        IF a \in list_enabled_accounts(db, "gemini") /\ CallsRestore(db[a], model, t)
        THEN [db[a] EXCEPT !.other = restored_other(@, model, t)]
        ELSE db[a]]

(***************************************************************************)
(* Quota snapshots (fetchAvailableModels), extract_credits_from_models_data *)
(* and the reading of a snapshot in the 429 branch of gemini_byte_stream.  *)
(***************************************************************************)
Fractions == {0, 3, 50}

SnapshotInstant == 2

QuotaInfo(has, fraction, reset) ==
    [hasFraction |-> has, remainingFraction |-> fraction, resetTime |-> reset]

\* quotaInfo of the provider model the snapshots vary in: a remainingFraction
\* with an instant or no resetTime, an exhausted quota with an unreadable
\* resetTime, or no remainingFraction at all (hasFraction FALSE)
QuotaInfos ==
    {QuotaInfo(TRUE, f, r) : f \in Fractions, r \in {NoResetTime, Instant(SnapshotInstant)}}
    \cup {QuotaInfo(TRUE, 0, MalformedResetTime), QuotaInfo(FALSE, 0, NoResetTime)}

\* quotaInfo of the other provider models: exhausted, without resetTime
OtherQuotaInfos == {QuotaInfo(TRUE, 0, NoResetTime)}

VaryingModel == "claude-sonnet-4-5"

\* models_data.models: provider model -> quotaInfo; a model may be missing
ModelsData ==
    UNION { { [m \in ms |-> IF m = VaryingModel THEN q ELSE o] :
                q \in QuotaInfos, o \in OtherQuotaInfos } :
            ms \in SUBSET SnapshotModels }

extract_credits_from_models_data(models_data) ==
    [m \in {k \in DOMAIN models_data : models_data[k].hasFraction} |->
        [remainingFraction |-> models_data[m].remainingFraction,
         remainingPercent  |-> models_data[m].remainingFraction,
         resetTime         |-> models_data[m].resetTime]]

\* remaining_fraction of the provider model, as the 429 branch reads it
snapshot_fraction(models_data, gemini_model) ==
    IF gemini_model \in DOMAIN models_data /\ models_data[gemini_model].hasFraction
    THEN models_data[gemini_model].remainingFraction
    ELSE 0

\* reset_time of the provider model, with the fallback of one hour from now
snapshot_reset_time(models_data, gemini_model, t) ==
    IF gemini_model \in DOMAIN models_data
       /\ models_data[gemini_model].resetTime # NoResetTime
    THEN models_data[gemini_model].resetTime
    ELSE Instant(t + OneHour)

\* a classification with the comparison turned round
is_rate_limit_inverted(remaining_fraction) == remaining_fraction < RateLimitThreshold

\* the 429 branch: rate limit (TRUE) or quota exhausted (FALSE)
is_rate_limit(remaining_fraction) == remaining_fraction > RateLimitThreshold

(***************************************************************************)
(* create_gemini_message (main.py): one request per handler, a step per    *)
(* stretch of code between two awaits.                                     *)
(***************************************************************************)
LedgerModels == SnapshotModels \cup {map_claude_model_to_gemini(m) : m \in RequestModels}

EmptyOther == [project |-> "", creditsInfo |-> [m \in {} |-> 0], suspended |-> FALSE]

IdleRequest ==
    [ pc          |-> "idle",
      model       |-> None,     \* claude_req.model
      specified   |-> None,     \* the X-Account-ID header
      account     |-> None,     \* account['id']
      other       |-> EmptyOther,   \* account['other'] as read at selection
      status      |-> 0,        \* status_code of the HTTPException raised, 200 on completion
      cause       |-> None,
      upstream    |-> 0,        \* upstream POSTs made for the request
      sent        |-> FALSE,    \* the response has started (message_start yielded)
      down        |-> <<>>,     \* names of the SSE events sent downstream: the first
                                \* and the closing ones (the content events between
                                \* them are those of handle_gemini_stream)
      models_data |-> [m \in {} |-> 0] ]

\* an access token: its identity and the exp claim of its JWT payload
\* (exp 0: a token without an exp claim; id 0: no token stored)
Token(id, exp) == [id |-> id, exp |-> exp]

NoToken == Token(0, 0)

TokenLifetime == 1

\* the accessToken the rows are created with: Q holds a JWT that expires, A a
\* token without an exp claim, B none
InitialToken(a) ==
    CASE a = "Q" -> Token(1, TokenLifetime)
      [] a = "A" -> Token(2, 0)
      [] OTHER   -> NoToken

GWInit ==
    /\ accounts = [a \in Accounts |->
                     [ enabled |-> a # "B",
                       type    |-> IF a \in GeminiAccounts THEN "gemini" ELSE "amazonq",
                       other   |-> [project |-> a, creditsInfo |-> [m \in {} |-> 0],
                                    suspended |-> FALSE],
                       accessToken |-> InitialToken(a),
                       last_refresh_status |-> "never" ]]
    /\ now = 0
    /\ req = [h \in Handlers |-> IdleRequest]
    /\ nreq = 0
    /\ marks = [a \in GeminiAccounts |-> [m \in RequestModels |-> NoResetTime]]

\* the UPDATE left out
update_account_skipped(db, account_id, other) == db

\* update_account(account_id, other=other)
update_account(db, account_id, other) == [db EXCEPT ![account_id].other = other]

\* raise HTTPException(status_code=status)
Raise(r, status, cause) ==
    [r EXCEPT !.pc = "failed", !.status = status, !.cause = cause,
              !.other = EmptyOther, !.models_data = [m \in {} |-> 0]]

CanReceive(h) == req[h].pc \in {"idle", "failed", "done"} /\ nreq < MaxRequests

\* a request with an X-Account-ID header (main.py 486-495)
GeminiRequestSpecified(h) ==
    /\ CanReceive(h)
    /\ \E model \in RequestModels, id \in Accounts \cup {"unknown"} :
         LET r == [IdleRequest EXCEPT !.model = model, !.specified = id]
         IN req' = [req EXCEPT ![h] =
              IF id \notin DOMAIN accounts THEN Raise(r, 404, "not_found")
              ELSE IF ~accounts[id].enabled THEN Raise(r, 403, "disabled")
              ELSE IF accounts[id].type # "gemini" THEN Raise(r, 400, "not_gemini")
              ELSE [r EXCEPT !.pc = "selected", !.account = id,
                             !.other = accounts[id].other]]
    /\ nreq' = nreq + 1
    /\ UNCHANGED <<extVars, aqVars, gemVars, accounts, now, marks>>

\* a request without the header: get_random_account("gemini", model)
\* (main.py 496-501)
GeminiRequestRouted(h) ==
    /\ CanReceive(h)
    /\ \E model \in RequestModels :
         LET r == [IdleRequest EXCEPT !.model = model]
             avail == available_accounts(accounts, model, now)
         IN /\ accounts' = after_availability_checks(accounts, model, now)
            /\ IF avail = {}
               THEN req' = [req EXCEPT ![h] = Raise(r, 503, "no_account")]
               ELSE \E a \in avail :
                      req' = [req EXCEPT ![h] =
                                [r EXCEPT !.pc = "selected", !.account = a,
                                          !.other = accounts[a].other]]
    /\ nreq' = nreq + 1
    /\ UNCHANGED <<extVars, aqVars, gemVars, now, marks>>

\* token_manager.get_project_id / get_auth_headers succeed; the
\* StreamingResponse is returned and handle_gemini_stream yields message_start
GeminiAuthorized(h) ==
    /\ req[h].pc = "selected"
    /\ req' = [req EXCEPT ![h].pc = "streaming", ![h].sent = TRUE,
                          ![h].down = Append(@, "message_start")]
    /\ UNCHANGED <<extVars, aqVars, gemVars, accounts, now, nreq, marks>>

\* the token refresh (or loadCodeAssist) fails: except Exception -> 500
GeminiAuthFails(h) ==
    /\ req[h].pc = "selected"
    /\ req' = [req EXCEPT ![h] = Raise(@, 500, "internal")]
    /\ UNCHANGED <<extVars, aqVars, gemVars, accounts, now, nreq, marks>>

\* the upstream POST answers 200 and the stream is relayed to its end
GeminiUpstream200(h) ==
    /\ req[h].pc = "streaming"
    /\ req' = [req EXCEPT ![h].pc = "done", ![h].status = 200,
                          ![h].upstream = @ + 1, ![h].other = EmptyOther,
                          ![h].down = @ \o <<"message_delta", "message_stop">>]
    /\ UNCHANGED <<extVars, aqVars, gemVars, accounts, now, nreq, marks>>

\* the upstream POST answers 429: fetch_available_models is awaited
GeminiUpstream429(h) ==
    /\ req[h].pc = "streaming"
    /\ req' = [req EXCEPT ![h].pc = "fetching", ![h].upstream = @ + 1]
    /\ UNCHANGED <<extVars, aqVars, gemVars, accounts, now, nreq, marks>>

\* the upstream POST answers another error status, or the transport fails
\* (httpx.RequestError -> 502)
GeminiUpstreamError(h) ==
    /\ req[h].pc = "streaming"
    /\ \E status \in {500, 502} :
         req' = [req EXCEPT ![h] = Raise([@ EXCEPT !.upstream = @ + 1], status,
                                         "upstream_error")]
    /\ UNCHANGED <<extVars, aqVars, gemVars, accounts, now, nreq, marks>>

\* fetch_available_models raises: except Exception, then the HTTPException
\* with the upstream's status code
GeminiFetchFails(h) ==
    /\ req[h].pc = "fetching"
    /\ req' = [req EXCEPT ![h] = Raise(@, 429, "upstream_429")]
    /\ UNCHANGED <<extVars, aqVars, gemVars, accounts, now, nreq, marks>>

\* fetch_available_models returns models_data
GeminiQuotaSnapshot(h) ==
    /\ req[h].pc = "fetching"
    /\ \E models_data \in ModelsData :
         req' = [req EXCEPT ![h].pc = "fetched", ![h].models_data = models_data]
    /\ UNCHANGED <<extVars, aqVars, gemVars, accounts, now, nreq, marks>>

\* the 429 branch after the snapshot (main.py 572-616): the snapshot is
\* stored, then the request fails as rate limited, or the model is marked
\* exhausted and the request fails
GeminiClassify429(h) ==
    /\ req[h].pc = "fetched"
    /\ LET r == req[h]
           gemini_model == map_claude_model_to_gemini(r.model)
           remaining_fraction == snapshot_fraction(r.models_data, gemini_model)
           reset_time == snapshot_reset_time(r.models_data, gemini_model, now)
           credits_info == extract_credits_from_models_data(r.models_data)
           db1 == update_account(accounts, r.account,
                                 [r.other EXCEPT !.creditsInfo = credits_info])
           cleared == [marks EXCEPT ![r.account] =
                         [m \in RequestModels |-> NoResetTime]]
       IN IF is_rate_limit(remaining_fraction)
          THEN /\ accounts' = db1
               /\ marks' = cleared
               /\ req' = [req EXCEPT ![h] = Raise(r, 429, "rate_limit")]
          ELSE /\ accounts' = update_account(db1, r.account,
                      mark_model_exhausted(db1[r.account].other, gemini_model, reset_time))
               /\ marks' = [cleared EXCEPT ![r.account][r.model] = reset_time]
               /\ req' = [req EXCEPT ![h] = Raise(r, 429, "quota_exhausted")]
    /\ UNCHANGED <<extVars, aqVars, gemVars, now, nreq>>

\* the clock advances
Tick ==
    /\ now < MaxTime
    /\ now' = now + 1
    /\ UNCHANGED <<extVars, aqVars, gemVars, accounts, req, nreq, marks>>

\* PATCH /v2/accounts/{id} with enabled, for a Gemini account
AdminSetEnabled ==
    /\ \E a \in GeminiAccounts, enabled \in BOOLEAN :
         accounts' = [accounts EXCEPT ![a].enabled = enabled]
    /\ UNCHANGED <<extVars, aqVars, gemVars, now, req, nreq, marks>>

(***************************************************************************)
(* create_message (main.py): the /v1/messages endpoint on the Amazon Q     *)
(* channel, with the token handling of auth.py. One request per handler, a *)
(* step per stretch of code between two awaits.                            *)
(***************************************************************************)
MaxMessages == 3

MsgHandlers == {"m1", "m2"}

\* the models /v1/messages is asked for: one both channels serve, one only
\* Amazon Q serves, one only Gemini serves
MessageModels == {"claude-sonnet-4.5", "claude-sonnet-4", "gemini-2.5-pro"}

gemini_only_models == {"claude-sonnet-4-5-thinking"}

amazonq_only_models == {"claude-sonnet-4", "claude-haiku-4.5"}

\* model.startswith('gemini')
StartsWithGemini(model) == model \in {"gemini-2.5-pro"}

\* get_random_channel_by_model: the channels it may return (None: no account)
get_random_channel_by_model(db, model) ==
    LET amazonq_accounts == list_enabled_accounts(db, "amazonq")
        gemini_accounts  == list_enabled_accounts(db, "gemini")
    IN IF StartsWithGemini(model) \/ model \in gemini_only_models
       THEN IF gemini_accounts # {} THEN {"gemini"} ELSE {None}
       ELSE IF model \in amazonq_only_models
       THEN IF amazonq_accounts # {} THEN {"amazonq"} ELSE {None}
       ELSE IF amazonq_accounts = {} /\ gemini_accounts = {} THEN {None}
       ELSE IF amazonq_accounts = {} THEN {"gemini"}
       ELSE IF gemini_accounts = {} THEN {"amazonq"}
       ELSE {"amazonq", "gemini"}

\* an upstream answer: its status code and whether the body contains
\* TEMPORARILY_SUSPENDED
Answer(status, suspended) == [status |-> status, suspended |-> suspended]

NoAnswer == Answer(0, FALSE)

UpstreamAnswers ==
    {Answer(200, FALSE), Answer(429, FALSE), Answer(500, FALSE)}
    \cup {Answer(st, su) : st \in {401, 403}, su \in BOOLEAN}

\* the last_refresh_status refresh_account_token records when the token
\* endpoint answers with an error status
RefreshFailures == {"failed_400"}

IdleMessage ==
    [ pc        |-> "idle",
      specified |-> None,        \* the X-Account-ID header
      channel   |-> None,        \* what get_random_channel_by_model returned
      account   |-> None,        \* account['id'], None in single-account mode
      other     |-> EmptyOther,  \* account['other'] as read at selection
      bearer    |-> NoToken,     \* the token of auth_headers["Authorization"]
      status    |-> 0,
      cause     |-> None,
      posts     |-> 0,           \* POSTs made to the Amazon Q endpoint
      answer    |-> NoAnswer ]   \* the last upstream answer

MsgInit ==
    /\ msg = [h \in MsgHandlers |-> IdleMessage]
    /\ nmsg = 0
    /\ issued = 0

\* raise HTTPException(status_code=status): of the locals the account, the
\* last upstream answer and the outcome are kept
MsgRaise(r, status, cause) ==
    [IdleMessage EXCEPT !.pc = "failed", !.status = status, !.cause = cause,
                        !.account = r.account, !.answer = r.answer,
                        !.posts = r.posts]

\* the upstream stream is relayed to its end
MsgDone(r) ==
    [IdleMessage EXCEPT !.pc = "done", !.status = 200,
                        !.account = r.account, !.answer = r.answer,
                        !.posts = r.posts]

\* the JWT check of get_account_with_token / get_auth_headers_for_account
token_expired(access_token, t) == access_token.exp # 0 /\ t >= access_token.exp

\* not access_token or token_expired
needs_refresh(access_token, t) ==
    access_token = NoToken \/ token_expired(access_token, t)

\* the accessToken of the next answer of the OIDC token endpoint
new_access_token(t) == Token(Cardinality(Accounts) + issued + 1, t + TokenLifetime)

\* a token update that leaves the accessToken column out
update_account_tokens_status_only(db, account_id, access_token, status) ==
    [db EXCEPT ![account_id].last_refresh_status = status]

\* update_account_tokens(account_id, access_token, refresh_token, status)
update_account_tokens(db, account_id, access_token, status) ==
    [db EXCEPT ![account_id].accessToken = access_token,
               ![account_id].last_refresh_status = status]

\* update_refresh_status(account_id, status)
update_refresh_status(db, account_id, status) ==
    [db EXCEPT ![account_id].last_refresh_status = status]

\* update_account(account['id'], enabled=False, other=current_other) with
\* current_other = account['other'] updated with the suspension record
suspend_account(db, account_id, other) ==
    [db EXCEPT ![account_id].enabled = FALSE,
               ![account_id].other = [other EXCEPT !.suspended = TRUE]]

\* the account is chosen: its token is used, or refreshed first
WithAccount(r, a) ==
    IF needs_refresh(accounts[a].accessToken, now)
    THEN [r EXCEPT !.pc = "auth_refresh", !.specified = None, !.account = a,
                   !.other = accounts[a].other]
    ELSE [r EXCEPT !.pc = "posting", !.specified = None, !.account = a,
                   !.other = accounts[a].other,
                   !.bearer = accounts[a].accessToken, !.posts = 1]

CanReceiveMessage(h) == msg[h].pc \in {"idle", "failed", "done", "forwarded"} /\ nmsg < MaxMessages

\* the request arrives: the channel is chosen unless X-Account-ID names an
\* account (main.py 181-212)
MessageReceived(h) ==
    /\ CanReceiveMessage(h)
    /\ \E model \in MessageModels, id \in Accounts \cup {"unknown", None} :
         LET r == [IdleMessage EXCEPT !.specified = id]
         IN IF id # None
            THEN msg' = [msg EXCEPT ![h] = [r EXCEPT !.pc = "converting"]]
            ELSE \E channel \in get_random_channel_by_model(accounts, model) :
                   msg' = [msg EXCEPT ![h] =
                     IF channel = None THEN MsgRaise(r, 503, "no_channel")
                     ELSE IF channel = "gemini"
                          THEN [IdleMessage EXCEPT !.pc = "forwarded"]
                          ELSE [r EXCEPT !.pc = "converting", !.channel = channel]]
    /\ nmsg' = nmsg + 1
    /\ UNCHANGED <<laterVars, aqVars, gemVars, gwVars, issued>>

\* the account and its token (main.py 285-314): the named account, or
\* get_account_with_token; with a token in hand the POST is made
MessageAccount(h) ==
    /\ msg[h].pc = "converting"
    /\ LET r == msg[h]
       IN IF r.specified # None
          THEN msg' = [msg EXCEPT ![h] =
                 IF r.specified \notin DOMAIN accounts THEN MsgRaise(r, 404, "not_found")
                 ELSE IF ~accounts[r.specified].enabled THEN MsgRaise(r, 403, "disabled")
                 ELSE WithAccount(r, r.specified)]
          ELSE IF list_enabled_accounts(accounts, None) = {}
          THEN \E configured \in BOOLEAN :
                 msg' = [msg EXCEPT ![h] =
                   IF configured
                   THEN [r EXCEPT !.pc = "posting", !.posts = 1]
                   ELSE MsgRaise(r, 503, "no_account")]
          ELSE \E a \in list_enabled_accounts(accounts, None) :
                 msg' = [msg EXCEPT ![h] = WithAccount(r, a)]
    /\ UNCHANGED <<laterVars, aqVars, gemVars, gwVars, nmsg, issued>>

\* refresh_account_token, called for a missing or expired token, succeeds
MessageTokenRefreshed(h) ==
    /\ msg[h].pc = "auth_refresh"
    /\ LET token == new_access_token(now)
       IN /\ accounts' = update_account_tokens(accounts, msg[h].account, token, "success")
          /\ msg' = [msg EXCEPT ![h].pc = "posting", ![h].bearer = token, ![h].posts = 1]
    /\ issued' = issued + 1
    /\ UNCHANGED <<laterVars, aqVars, gemVars, now, req, nreq, marks, nmsg>>

\* refresh_account_token fails: TokenRefreshError -> 502 (main.py 312-314)
MessageTokenRefreshFails(h) ==
    /\ msg[h].pc = "auth_refresh"
    /\ \E status \in RefreshFailures :
         accounts' = update_refresh_status(accounts, msg[h].account, status)
    /\ msg' = [msg EXCEPT ![h] = MsgRaise(@, 502, "token_refresh")]
    /\ UNCHANGED <<laterVars, aqVars, gemVars, now, req, nreq, marks, nmsg, issued>>

\* byte_stream: the answer to the first POST (main.py 346-445)
MessageUpstream(h) ==
    /\ msg[h].pc = "posting"
    /\ LET r == msg[h]
       IN \/ /\ msg' = [msg EXCEPT ![h] = MsgRaise(r, 502, "request_error")]
             /\ UNCHANGED accounts
          \/ \E ans \in UpstreamAnswers :
               LET ra == [r EXCEPT !.answer = ans]
               IN IF ans.status \in {401, 403}
                  THEN IF ans.suspended /\ r.account # None
                       THEN /\ accounts' = suspend_account(accounts, r.account, r.other)
                            /\ msg' = [msg EXCEPT ![h] = MsgRaise(ra, 403, "suspended")]
                       ELSE /\ msg' = [msg EXCEPT ![h] = [ra EXCEPT !.pc = "refreshing"]]
                            /\ UNCHANGED accounts
                  ELSE /\ UNCHANGED accounts
                       /\ msg' = [msg EXCEPT ![h] =
                            IF ans.status = 200
                            THEN MsgDone(ra)
                            ELSE MsgRaise(ra, ans.status, "upstream_error")]
    /\ UNCHANGED <<laterVars, aqVars, gemVars, now, req, nreq, marks, nmsg, issued>>

\* the refresh after a 401/403 succeeds and the POST is made again with the
\* new bearer (main.py 369-396)
MessageRetried(h) ==
    /\ msg[h].pc = "refreshing"
    /\ LET token == new_access_token(now)
       IN /\ accounts' = IF msg[h].account # None
                         THEN update_account_tokens(accounts, msg[h].account, token, "success")
                         ELSE accounts
          /\ msg' = [msg EXCEPT ![h].pc = "retrying", ![h].bearer = token,
                                ![h].posts = @ + 1]
    /\ issued' = issued + 1
    /\ UNCHANGED <<laterVars, aqVars, gemVars, now, req, nreq, marks, nmsg>>

\* the refresh after a 401/403 fails: TokenRefreshError -> 502
\* (main.py 426-428)
MessageRefreshFails(h) ==
    /\ msg[h].pc = "refreshing"
    /\ IF msg[h].account # None
       THEN \E status \in RefreshFailures :
              accounts' = update_refresh_status(accounts, msg[h].account, status)
       ELSE UNCHANGED accounts
    /\ msg' = [msg EXCEPT ![h] = MsgRaise(@, 502, "token_refresh")]
    /\ UNCHANGED <<laterVars, aqVars, gemVars, now, req, nreq, marks, nmsg, issued>>

\* the answer to the second POST (main.py 396-424)
MessageRetryUpstream(h) ==
    /\ msg[h].pc = "retrying"
    /\ LET r == msg[h]
       IN \/ /\ msg' = [msg EXCEPT ![h] = MsgRaise(r, 502, "request_error")]
             /\ UNCHANGED accounts
          \/ \E ans \in UpstreamAnswers :
               LET ra == [r EXCEPT !.answer = ans]
               IN /\ accounts' =
                       IF ans.status = 403 /\ ans.suspended /\ r.account # None
                       THEN suspend_account(accounts, r.account, r.other)
                       ELSE accounts
                  /\ msg' = [msg EXCEPT ![h] =
                       IF ans.status = 200
                       THEN MsgDone(ra)
                       ELSE MsgRaise(ra, ans.status, "retry_failed")]
    /\ UNCHANGED <<laterVars, aqVars, gemVars, now, req, nreq, marks, nmsg, issued>>

\* PATCH /v2/accounts/{id} with enabled
AdminPatchEnabled ==
    /\ nmsg < MaxMessages
    /\ \E a \in Accounts, enabled \in BOOLEAN :
         accounts' = [accounts EXCEPT ![a].enabled = enabled]
    /\ nmsg' = nmsg + 1
    /\ UNCHANGED <<laterVars, aqVars, gemVars, now, req, nreq, marks, msg, issued>>

(***************************************************************************)
(* Properties of the Gemini gateway.                                       *)
(***************************************************************************)
\* the ledger entry of the account for the model shows remainingFraction 0
\* and a resetTime later than t
Exhausted(account, model, t) ==
    /\ HasEntry(account.other, model)
    /\ account.other.creditsInfo[model].remainingFraction = 0
    /\ account.other.creditsInfo[model].resetTime.kind = "instant"
    /\ t < account.other.creditsInfo[model].resetTime.at

\* this step is handler h receiving a request without X-Account-ID
RoutedStep(h) ==
    /\ CanReceive(h)
    /\ nreq' = nreq + 1
    /\ req'[h].specified = None
    /\ \A g \in Handlers \ {h} : req'[g] = req[g]

\* this step is handler h leaving the 429 branch with the snapshot in hand
ClassifyStep(h) == req[h].pc = "fetched" /\ req'[h].pc = "failed"

\* C5: a request that fails because its 429 was classified as quota
\* exhaustion (the account was marked) fails only when no other eligible
\* account is left for the model: with one left, the request is retried there.
C5_RetriesOnNextAccount ==
    [][\A h \in Handlers :
         (ClassifyStep(h) /\ req'[h].cause = "quota_exhausted")
         => available_accounts(accounts', req[h].model, now) \ {req[h].account} = {}]_vars

\* C6: while an account carries an exhaustion mark made for a request for
\* model m and the mark's resetTime has not passed, no request for m is
\* routed to that account.
C6_NoRouteBeforeReset ==
    [][\A h \in Handlers :
         (RoutedStep(h) /\ req'[h].pc = "selected")
         => LET mark == marks[req'[h].account][req'[h].model]
            IN ~(mark.kind = "instant" /\ now < mark.at)]_vars

\* C7: the router never selects an account whose ledger entry for the
\* requested model has remainingFraction 0 and a future resetTime; when every
\* enabled Gemini account is in that state the request fails with 503 and
\* no upstream request has been sent for it.
C7_RouterSkipsExhausted ==
    [][\A h \in Handlers :
         RoutedStep(h) =>
           /\ req'[h].pc = "selected"
                => ~Exhausted(accounts[req'[h].account], req'[h].model, now)
           /\ (\A a \in list_enabled_accounts(accounts, "gemini") :
                    Exhausted(accounts[a], req'[h].model, now))
                => /\ req'[h].pc = "failed"
                   /\ req'[h].status = 503
                   /\ req'[h].upstream = 0
                   /\ ~req'[h].sent]_vars

\* C7 witness: a routed request failed with 503 while an enabled Gemini
\* account stood exhausted for its model
C7_Witness ==
    \E h \in Handlers :
       /\ req[h].pc = "failed" /\ req[h].status = 503 /\ req[h].specified = None
       /\ list_enabled_accounts(accounts, "gemini") # {}
       /\ \A a \in list_enabled_accounts(accounts, "gemini") :
             Exhausted(accounts[a], req[h].model, now)

\* C8: when the router reads the availability of (a, m) and the stored entry
\* is the one mark_model_exhausted(a, m, t) writes, with t <= now, the entry
\* in the store after the read has remainingFraction 1.0 and
\* remainingPercent 100 (its resetTime kept), and the read finds a available.
C8_RestoredOnRead ==
    [][\A h \in Handlers :
         RoutedStep(h) =>
           \A a \in list_enabled_accounts(accounts, "gemini"), t \in 0..now :
              LET m == req'[h].model
              IN (/\ HasEntry(accounts[a].other, m)
                  /\ accounts[a].other = mark_model_exhausted(accounts[a].other, m, Instant(t)))
                 => /\ accounts'[a].other.creditsInfo[m].remainingFraction = FullFraction
                    /\ accounts'[a].other.creditsInfo[m].remainingPercent = FullPercent
                    /\ accounts'[a].other.creditsInfo[m].resetTime = Instant(t)
                    /\ req'[h].pc = "selected"]_vars

\* C8 witness: an exhaustion mark whose resetTime has passed stands restored
\* in the store (snapshots never report a full quota, so the full entry is
\* the work of restore_model_quota_if_needed)
C8_Witness ==
    \E a \in GeminiAccounts, m \in RequestModels :
       /\ marks[a][m].kind = "instant" /\ marks[a][m].at <= now
       /\ HasEntry(accounts[a].other, m)
       /\ accounts[a].other.creditsInfo[m] =
            [remainingFraction |-> FullFraction, remainingPercent |-> FullPercent,
             resetTime |-> marks[a][m]]

\* C9: is_model_available_for_account is FALSE only for an entry with
\* remainingFraction 0 and a resetTime that lies in the future (or for an
\* account that is not enabled); in every other ledger state it is TRUE.
C9_UnavailableOnlyBeforeReset ==
    \A a \in GeminiAccounts, m \in RequestModels :
       ~is_model_available_for_account(accounts[a], accounts[a].other, m, now)
       => \/ Exhausted(accounts[a], m, now)
          \/ ~accounts[a].enabled

C18_FailureAfterFirstEventIsErrorFrame ==
    \A h \in Handlers :
        (req[h].pc = "failed" /\ req[h].upstream > 0 /\ req[h].down # <<>>)
            => req[h].down[Len(req[h].down)] = "error"


(***************************************************************************)
(* Properties of the /v1/messages gateway.                                 *)
(***************************************************************************)
\* handler h holds an account and is between its selection and its outcome
InFlight(h) == msg[h].pc \in {"auth_refresh", "posting", "refreshing", "retrying"}

\* this step is handler h reading an upstream answer with a suspension body
SuspensionAnswered(h) ==
    /\ msg[h].pc \in {"posting", "retrying"}
    /\ msg'[h].pc \notin {"posting", "retrying"}
    /\ msg'[h].answer # msg[h].answer
    /\ msg'[h].answer.status \in {401, 403}
    /\ msg'[h].answer.suspended

\* C11: in every reachable state of the account store an account whose
\* `other` records suspended = true has enabled = false.
C11_SuspendedIsDisabled ==
    \A a \in Accounts : accounts[a].other.suspended => ~accounts[a].enabled

\* C12: when the upstream answers 401/403 with TEMPORARILY_SUSPENDED in the
\* body, the account is stored with the suspension record and enabled =
\* false and the request fails with 403; and a request is only ever given an
\* account that is enabled.
C12_SuspensionDisables ==
    [][\A h \in MsgHandlers :
         /\ (SuspensionAnswered(h) /\ msg[h].account # None)
              => /\ ~accounts'[msg[h].account].enabled
                 /\ accounts'[msg[h].account].other.suspended
                 /\ msg'[h].pc = "failed"
                 /\ msg'[h].status = 403
         /\ (msg[h].pc = "converting" /\ msg'[h].account # None)
              => accounts[msg'[h].account].enabled]_vars

\* C13: when the token refresh after a 401/403 fails, the failure is recorded
\* on the account and the request fails only if the router has no other
\* account to try.
C13_NextAccountOnRefreshFailure ==
    [][\A h \in MsgHandlers :
         (/\ msg[h].pc = "refreshing"
          /\ msg[h].account # None
          /\ msg'[h].pc = "failed")
         => /\ accounts'[msg[h].account].last_refresh_status \in RefreshFailures
            /\ list_enabled_accounts(accounts', None) \ {msg[h].account} = {}]_vars

\* C14: after a 401/403 on the first POST, a successful refresh stores the
\* new token with last_refresh_status "success" and the POST is repeated with
\* that token as bearer; a 200 on the repeated POST ends the request without
\* an error.
C14_RetryWithRefreshedToken ==
    [][\A h \in MsgHandlers :
         /\ (msg[h].pc = "refreshing" /\ msg[h].account # None /\ msg'[h] # msg[h])
              => \/ msg'[h].pc = "failed"
                 \/ /\ msg'[h].pc = "retrying"
                    /\ msg'[h].posts = msg[h].posts + 1
                    /\ msg'[h].bearer = new_access_token(now)
                    /\ msg'[h].bearer # msg[h].bearer
                    /\ accounts'[msg[h].account].accessToken = msg'[h].bearer
                    /\ accounts'[msg[h].account].last_refresh_status = "success"
         /\ (msg[h].pc = "retrying" /\ msg'[h] # msg[h] /\ msg'[h].answer.status = 200
               /\ msg'[h].cause # "request_error")
              => /\ msg'[h].pc = "done"
                 /\ msg'[h].status = 200
                 /\ msg'[h].cause = None]_vars

\* C14 witness: with a single enabled account, a request ended with 200 on
\* its second POST and the account holds a token of the refresh, status
\* "success"
C14_Witness ==
    \E h \in MsgHandlers :
       /\ msg[h].pc = "done" /\ msg[h].posts > 1 /\ msg[h].account # None
       /\ list_enabled_accounts(accounts, None) = {msg[h].account}
       /\ accounts[msg[h].account].last_refresh_status = "success"
       /\ accounts[msg[h].account].accessToken.id > Cardinality(Accounts)

\* C15: concurrent token fetches for one account whose stored token is
\* expired make a single refresh request: no two handlers wait for the token
\* endpoint's answer for that account at the same time.
C15_OneRefreshInFlight ==
    \A h1, h2 \in MsgHandlers :
       (/\ h1 # h2
        /\ msg[h1].pc = "auth_refresh"
        /\ msg[h2].pc = "auth_refresh"
        /\ token_expired(accounts[msg[h1].account].accessToken, now))
       => msg[h1].account # msg[h2].account

\* C16: a request whose channel was fixed as Amazon Q is served with an
\* account of type amazonq.
C16_AccountOfChannelType ==
    \A h \in MsgHandlers :
       (InFlight(h) /\ msg[h].channel = "amazonq" /\ msg[h].account # None)
       => accounts[msg[h].account].type = "amazonq"

(***************************************************************************)
(* ki2api: the TokenManager (token_manager.py) and the retry loop of       *)
(* call_kiro_api / call_kiro_api_stream (app.py), called by the            *)
(* /v1/chat/completions handlers.  get_token holds refresh_lock for its    *)
(* whole body and the model runs one call at a time, so get_token is one   *)
(* step whose refresh answers are inputs.                                  *)
(***************************************************************************)
NumConfigs == 2

MaxGen == 2

MaxKiroCalls == 3

KiroConfigs == 0 .. (NumConfigs - 1)

\* get_token skips a cached token whose error_count reached this value
ErrorLimit == 3

\* an access token: the configuration it was issued for and which of that
\* configuration's tokens it is; two tokens are the same string iff equal
KToken(idx, gen) == [config |-> idx, gen |-> gen]

NoKToken == KToken(-1, 0)

\* self.tokens has no entry for the index
NoCachedToken == [cached |-> FALSE, gen |-> 0, aged |-> FALSE,
                  is_exhausted |-> FALSE, error_count |-> 0]

\* CachedToken(access_token, config_index, cached_at = time.time())
CachedToken(gen) == [cached |-> TRUE, gen |-> gen, aged |-> FALSE,
                     is_exhausted |-> FALSE, error_count |-> 0]

\* error_count += 1; the count is only ever compared with ErrorLimit, so it
\* is kept up to that value
CountError(c) ==
    IF c.error_count < ErrorLimit THEN [c EXCEPT !.error_count = @ + 1] ELSE c

KiroInit ==
    /\ kiro = [tokens |-> [i \in KiroConfigs |-> NoCachedToken], current_index |-> 0]
    /\ kcall = [pc |-> "idle", stream |-> FALSE, token |-> NoKToken, retry |-> 0,
                hit |-> {}, other |-> FALSE, status |-> 0, posts |-> 0,
                result |-> None, sent |-> -1, marked |-> {}]
    /\ nkcall = 0

\* the answers of the refresh endpoint: a new access token, the access token
\* it gave last time, or a failure
RefreshOutcomes(tm) ==
    { o \in [KiroConfigs -> {"new", "same", "fail"}] :
        \A i \in KiroConfigs :
            /\ o[i] = "new" => tm.tokens[i].gen < MaxGen
            /\ o[i] = "same" => tm.tokens[i].cached }

refresh_single_token(tm, index, outcome) ==
    CASE outcome = "new" ->
           [tm |-> [tm EXCEPT !.tokens[index] = CachedToken(tm.tokens[index].gen + 1)],
            token |-> KToken(index, tm.tokens[index].gen + 1)]
      [] outcome = "same" ->
           [tm |-> [tm EXCEPT !.tokens[index] = CachedToken(tm.tokens[index].gen)],
            token |-> KToken(index, tm.tokens[index].gen)]
      [] OTHER ->
           [tm |-> IF tm.tokens[index].cached
                   THEN [tm EXCEPT !.tokens[index] = CountError(@)]
                   ELSE tm,
            token |-> NoKToken]

RECURSIVE get_token_from(_, _, _)
get_token_from(tm, outcomes, attempt) ==
    IF attempt = NumConfigs
    THEN [tm |-> tm, token |-> NoKToken]
    ELSE LET idx == (tm.current_index + attempt) % NumConfigs
             cached == tm.tokens[idx]
         IN  IF /\ cached.cached
                /\ ~cached.aged
                /\ ~cached.is_exhausted
                /\ cached.error_count < ErrorLimit
             THEN [tm |-> tm, token |-> KToken(idx, cached.gen)]
             ELSE LET r == refresh_single_token(tm, idx, outcomes[idx])
                  IN  IF r.token # NoKToken
                      THEN [tm |-> [r.tm EXCEPT !.current_index = idx],
                            token |-> r.token]
                      ELSE get_token_from(r.tm, outcomes, attempt + 1)

get_token(tm, outcomes) ==
    IF NumConfigs = 0
    THEN [tm |-> tm, token |-> NoKToken]
    ELSE get_token_from(tm, outcomes, 0)

mark_token_exhausted(tm) ==
    LET marked == IF tm.tokens[tm.current_index].cached
                  THEN [tm EXCEPT !.tokens[tm.current_index].is_exhausted = TRUE]
                  ELSE tm
    IN  IF NumConfigs > 1
        THEN [marked EXCEPT !.current_index = (@ + 1) % NumConfigs]
        ELSE marked

mark_token_error(tm) ==
    IF tm.tokens[tm.current_index].cached
    THEN [tm EXCEPT !.tokens[tm.current_index] = CountError(@)]
    ELSE tm

reset_all_exhausted(tm) ==
    [tm EXCEPT !.tokens = [i \in KiroConfigs |->
        IF tm.tokens[i].cached
        THEN [tm.tokens[i] EXCEPT !.is_exhausted = FALSE, !.error_count = 0]
        ELSE tm.tokens[i]]]

max_retries == IF NumConfigs > 0 THEN NumConfigs ELSE 1

\* the call is over and the client has its HTTP status; the locals are dead
\* (result: what call_kiro_api gave its caller, a response or an HTTPException)
KiroDone(c, status) ==
    [c EXCEPT !.pc = "done", !.status = status, !.token = NoKToken, !.retry = 0,
              !.result = IF status = 200 THEN "response" ELSE "HTTPException"]

\* `continue` in the retry loop: the next iteration posts with new_token, and
\* after the last iteration the loop ends, the function returns None and the
\* caller's use of the result raises, which its handler turns into a 500
KiroContinue(c, new_token) ==
    IF c.retry + 1 < max_retries
    THEN [c EXCEPT !.token = new_token, !.retry = @ + 1, !.posts = @ + 1]
    ELSE [KiroDone(c, 500) EXCEPT !.result = "None"]

\* the upstream answer of the configuration whose token was posted
KiroNoted(c, status) ==
    IF status = 429
    THEN [c EXCEPT !.hit = @ \cup {c.token.config}]
    ELSE [c EXCEPT !.other = TRUE]

\* the cache entries a mark wrote to
EntriesWritten(tm, marked) == {i \in KiroConfigs : marked.tokens[i] # tm.tokens[i]}

\* the call remembers the configuration of the token it posted and the
\* entries the mark that followed the answer wrote to
KiroMarked(c, tm, marked) ==
    [c EXCEPT !.sent = c.token.config, !.marked = EntriesWritten(tm, marked)]

\* POST /v1/chat/completions: the first get_token of the call
KiroCallReceived ==
    /\ kcall.pc \in {"idle", "done"}
    /\ nkcall < MaxKiroCalls
    /\ \E stream \in BOOLEAN, outcomes \in RefreshOutcomes(kiro) :
         LET r == get_token(kiro, outcomes)
             fresh == [pc |-> "posting", stream |-> stream, token |-> r.token,
                       retry |-> 0, hit |-> {}, other |-> FALSE, status |-> 0,
                       posts |-> 1, result |-> None, sent |-> -1, marked |-> {}]
         IN  /\ kiro' = r.tm
             /\ kcall' = IF r.token = NoKToken
                         THEN KiroDone([fresh EXCEPT !.posts = 0], 401)
                         ELSE fresh
    /\ nkcall' = nkcall + 1
    /\ UNCHANGED <<curVars, cwVars, oaiVars, aqVars, gemVars, gwVars, msgVars, tailVars>>

\* one iteration of the retry loop that got an HTTP answer
KiroAnswered ==
    /\ kcall.pc = "posting"
    /\ \E status \in {200, 403, 429, 500}, outcomes \in RefreshOutcomes(kiro) :
         LET marked == CASE status = 429 -> mark_token_exhausted(kiro)
                         [] status = 200 -> kiro
                         [] OTHER -> mark_token_error(kiro)
             c == KiroMarked(KiroNoted(kcall, status), kiro, marked)
             r == get_token(marked, outcomes)
         IN  CASE status = 200 ->
                    /\ kcall' = KiroDone(c, 200)
                    /\ kiro' = kiro
               [] status \in {403, 429} ->
                    /\ kiro' = r.tm
                    /\ kcall' = IF r.token # NoKToken /\ r.token # kcall.token
                                THEN KiroContinue(c, r.token)
                                ELSE KiroDone(c, IF status = 403 THEN 401 ELSE 429)
               [] OTHER ->
                    IF kcall.retry < max_retries - 1
                    THEN /\ kiro' = r.tm
                         /\ kcall' = IF r.token # NoKToken
                                     THEN KiroContinue(c, r.token)
                                     ELSE KiroDone(c, 503)
                    ELSE /\ kiro' = marked
                         /\ kcall' = KiroDone(c, 503)
    /\ UNCHANGED <<curVars, cwVars, oaiVars, aqVars, gemVars, gwVars, msgVars, nkcall, tailVars>>

\* one iteration of the retry loop whose POST raised
KiroTransportError ==
    /\ kcall.pc = "posting"
    /\ \E outcomes \in RefreshOutcomes(kiro) :
         LET c == KiroMarked([kcall EXCEPT !.other = TRUE], kiro, mark_token_error(kiro))
             r == get_token(mark_token_error(kiro), outcomes)
         IN  IF kcall.stream /\ kcall.retry < max_retries - 1
             THEN /\ kiro' = r.tm
                  /\ kcall' = IF r.token # NoKToken
                              THEN KiroContinue(c, r.token)
                              ELSE KiroDone(c, 503)
             ELSE /\ kiro' = kiro
                  /\ kcall' = KiroDone(c, 503)
    /\ UNCHANGED <<curVars, cwVars, oaiVars, aqVars, gemVars, gwVars, msgVars, nkcall, tailVars>>

\* time.time() - cached_at reaches token_cache_ttl for a cached token
KiroCacheAges ==
    /\ \E i \in KiroConfigs :
         /\ kiro.tokens[i].cached
         /\ ~kiro.tokens[i].aged
         /\ kiro' = [kiro EXCEPT !.tokens[i].aged = TRUE]
    /\ UNCHANGED <<curVars, cwVars, oaiVars, aqVars, gemVars, gwVars, msgVars, kcall, nkcall, tailVars>>

\* POST /v1/token/reset
KiroResetExhausted ==
    /\ nkcall < MaxKiroCalls
    /\ \E i \in KiroConfigs :
         kiro.tokens[i].is_exhausted \/ kiro.tokens[i].error_count > 0
    /\ kiro' = reset_all_exhausted(kiro)
    /\ nkcall' = nkcall + 1
    /\ UNCHANGED <<curVars, cwVars, oaiVars, aqVars, gemVars, gwVars, msgVars, kcall, tailVars>>

(***************************************************************************)
(* Properties of the ki2api retry loop.                                    *)
(***************************************************************************)
\* C17: a call in which every configured account answered 429, and no
\* account answered anything else, ends with HTTP 429 for the client.
C17_AllExhaustedIs429 ==
    (kcall.pc = "done" /\ kcall.hit = KiroConfigs /\ ~kcall.other)
        => kcall.status = 429

\* C24: a call posts upstream at most as many times as there are configured
\* accounts (at least once), and when its retry loop is over the caller has
\* either the upstream response or an HTTPException.
C24_BoundedAttemptsAndOutcome ==
    /\ kcall.posts <= max_retries
    /\ kcall.pc = "done" => kcall.result \in {"response", "HTTPException"}

\* C37: the mark that follows the answer to a request is written to the
\* cache entry of the account whose token the request was sent with, and to
\* no other entry.
C37_MarkOnSendingAccount == kcall.marked \subseteq {kcall.sent}

\* C38: an account marked exhausted stays marked and gets no token handed
\* out until reset_all_exhausted runs: a step that finds the flag of an entry
\* set and is not a reset leaves the flag set and ends with no token of that
\* account in the hands of the call.
C38_ExhaustedUntilReset ==
    [][\A i \in KiroConfigs :
          (kiro.tokens[i].is_exhausted /\ kiro' # reset_all_exhausted(kiro))
              => (kiro'.tokens[i].is_exhausted /\ kcall'.token.config # i)]_vars

(***************************************************************************)
(* ki2api: generate_stream of create_streaming_response (app.py), the      *)
(* OpenAI-dialect SSE stream built from the CodeWhisperer events.  The     *)
(* generate_stream of kiro2api/services/response_handler.py has the same   *)
(* body.  A text is a sequence of symbols: "x" a visible character, "s" a  *)
(* whitespace character, "C" the opener "[Called" and "]" a closing        *)
(* bracket.  Positions are counted from 1 and 0 stands for "not found"     *)
(* (-1 in the code).                                                       *)
(***************************************************************************)
MaxEvents == 3

MaxText == 3

Symbols == {"x", "s", "C", "]"}

Texts == UNION { [1 .. n -> Symbols] : n \in 0 .. MaxText }

\* the events CodeWhispererStreamParser.parse returns: a structured tool
\* call event (name and toolUseId, an input fragment that may be empty, a
\* stop flag), an assistantResponseEvent with content, or another event
UpstreamEvents ==
    [kind : {"tool"}, input : {<<>>, <<"x">>}, stop : BOOLEAN, content : {<<>>}]
      \cup [kind : {"content"}, input : {<<>>}, stop : {FALSE}, content : Texts]
      \cup [kind : {"other"}, input : {<<>>}, stop : {FALSE}, content : {<<>>}]

\* a chunk of the downstream stream: what its delta carries, whether the
\* delta has role "assistant", the finish_reason of its choice, and the
\* upstream events (by their number in the stream) whose data it carries
Chunk(delta, role, finish_reason, src) ==
    [delta |-> delta, role |-> role, finish_reason |-> finish_reason, src |-> src,
     call |-> <<>>]

DoneLine == Chunk("[DONE]", FALSE, None, {})

\* the content text of the n-th upstream event: each character with the
\* number of the event that brought it
TextOfEvent(content, n) == [i \in 1 .. Len(content) |-> [c |-> content[i], e |-> n]]

\* the events the characters of a text came with
Sources(text) == {text[i].e : i \in 1 .. Len(text)}

OaiInit ==
    /\ oai = [is_in_tool_call |-> FALSE, sent_role |-> FALSE,
              streamed_tool_calls_count |-> 0,
              content_buffer |-> <<>>, incomplete_tool_call |-> <<>>]
    /\ oaiOut = <<>>
    /\ oaiPhase = "streaming"
    /\ oaiSeen = 0

\* content_buffer.find("[Called")
RECURSIVE find_called_from(_, _)
find_called_from(text, i) ==
    IF i > Len(text) THEN 0
    ELSE IF text[i].c = "C" THEN i
    ELSE find_called_from(text, i + 1)

find_called(text) == find_called_from(text, 1)

\* text.strip() is not empty
strip_nonempty(text) == \E i \in 1 .. Len(text) : text[i].c # "s"

RECURSIVE bracket_scan(_, _, _)
bracket_scan(text, i, bracket_count) ==
    IF i > Len(text) THEN 0
    ELSE IF text[i].c = "C" THEN bracket_scan(text, i + 1, bracket_count + 1)
    ELSE IF text[i].c = "]"
         THEN IF bracket_count = 1 THEN i
              ELSE bracket_scan(text, i + 1, bracket_count - 1)
    ELSE bracket_scan(text, i + 1, bracket_count)

\* find_matching_bracket(text, 0)
find_matching_bracket(text) ==
    IF text = <<>> \/ text[1].c # "C" THEN 0 ELSE bracket_scan(text, 2, 1)

\* parse_single_tool_call: the name pattern needs a function name after
\* "[Called"
parse_single_tool_call(tool_call_text) ==
    Len(tool_call_text) >= 2 /\ tool_call_text[2].c = "x"

\* a chunk is yielded; the first one yielded with `if not sent_role` gets
\* the role
Emit(s, delta, src) ==
    [s EXCEPT !.out = Append(@, Chunk(delta, ~s.h.sent_role, None, src)),
              !.h.sent_role = TRUE]

\* parsed_call.function: the name and the arguments parse_single_tool_call
\* reads from the text of a bracket call
parsed_function(tool_call_text) ==
    [i \in 1 .. Len(tool_call_text) |-> tool_call_text[i].c]

\* delta_tool, carrying the name and the arguments of the parsed call
EmitToolCall(s, tool_call_text) ==
    LET s1 == Emit(s, "tool_calls", Sources(tool_call_text))
    IN  [s1 EXCEPT !.out[Len(s1.out)].call = parsed_function(tool_call_text),
                   !.h.streamed_tool_calls_count = @ + 1]

\* the `while True` loop over content_buffer
RECURSIVE drain_content_buffer(_)
drain_content_buffer(s) ==
    LET content_buffer == s.h.content_buffer
        called_start == find_called(content_buffer)
    IN  IF called_start = 0
        THEN IF content_buffer # <<>> /\ s.h.incomplete_tool_call = <<>>
             THEN [Emit(s, "content", Sources(content_buffer))
                     EXCEPT !.h.content_buffer = <<>>]
             ELSE s
        ELSE LET text_before == SubSeq(content_buffer, 1, called_start - 1)
                 s1 == IF called_start > 1 /\ strip_nonempty(text_before)
                       THEN Emit(s, "content", Sources(text_before))
                       ELSE s
                 remaining_text == SubSeq(content_buffer, called_start,
                                          Len(content_buffer))
                 bracket_end == find_matching_bracket(remaining_text)
                 tool_call_text == SubSeq(remaining_text, 1, bracket_end)
                 s2 == IF parse_single_tool_call(tool_call_text)
                       THEN EmitToolCall(s1, tool_call_text)
                       ELSE s1
             IN  IF bracket_end = 0
                 THEN [s1 EXCEPT !.h.incomplete_tool_call = remaining_text,
                                 !.h.content_buffer = <<>>]
                 ELSE drain_content_buffer(
                        [s2 EXCEPT !.h.content_buffer =
                                      SubSeq(remaining_text, bracket_end + 1,
                                             Len(remaining_text)),
                                   !.h.incomplete_tool_call = <<>>])

\* the body of `for event in events`
on_event(s, event, n) ==
    IF event.kind = "tool"
    THEN LET s1 == IF ~s.h.is_in_tool_call
                   THEN [Emit(s, "tool_calls", {n}) EXCEPT !.h.is_in_tool_call = TRUE]
                   ELSE s
             s2 == IF event.input # <<>>
                   THEN [s1 EXCEPT !.out = Append(@, Chunk("arguments", FALSE, None, {n}))]
                   ELSE s1
         IN  IF event.stop
             THEN [s2 EXCEPT !.h.is_in_tool_call = FALSE,
                             !.h.streamed_tool_calls_count = @ + 1]
             ELSE s2
    ELSE IF event.kind = "content" /\ ~s.h.is_in_tool_call /\ event.content # <<>>
    THEN drain_content_buffer(
           [s EXCEPT !.h.content_buffer = @ \o TextOfEvent(event.content, n)])
    ELSE s

\* the code after the `async for` loop, up to "data: [DONE]"
at_end_of_stream(s) ==
    LET joined == s.h.incomplete_tool_call \o s.h.content_buffer
        bracket_end == find_matching_bracket(joined)
        s1 == IF s.h.incomplete_tool_call = <<>> THEN s
              ELSE LET t == [s EXCEPT !.h.content_buffer = joined,
                                      !.h.incomplete_tool_call = <<>>]
                   IN  IF /\ find_called(joined) = 1
                          /\ bracket_end # 0
                          /\ parse_single_tool_call(SubSeq(joined, 1, bracket_end))
                       THEN [EmitToolCall(t, SubSeq(joined, 1, bracket_end))
                               EXCEPT !.h.content_buffer =
                                SubSeq(joined, bracket_end + 1, Len(joined))]
                       ELSE t
        s2 == IF strip_nonempty(s1.h.content_buffer) THEN Emit(s1, "content", Sources(s1.h.content_buffer)) ELSE s1
        finish_reason == IF s2.h.streamed_tool_calls_count > 0
                         THEN "tool_calls" ELSE "stop"
    IN  [s2 EXCEPT !.out = @ \o <<Chunk("", FALSE, finish_reason, {}), DoneLine>>]

\* response.aiter_bytes() delivers a chunk holding one event
OaiEvent ==
    /\ oaiPhase = "streaming"
    /\ oaiSeen < MaxEvents
    /\ \E event \in UpstreamEvents :
         LET s == on_event([h |-> oai, out |-> oaiOut], event, oaiSeen + 1)
         IN  /\ oai' = s.h
             /\ oaiOut' = s.out
    /\ oaiSeen' = oaiSeen + 1
    /\ UNCHANGED <<curVars, cwVars, aqVars, gemVars, gwVars, msgVars, kiroVars, oaiPhase, tailVars>>

\* the upstream response ends
OaiEndOfStream ==
    /\ oaiPhase = "streaming"
    /\ LET s == at_end_of_stream([h |-> oai, out |-> oaiOut])
       IN  /\ oai' = s.h
           /\ oaiOut' = s.out
    /\ oaiPhase' = "done"
    /\ UNCHANGED <<curVars, cwVars, aqVars, gemVars, gwVars, msgVars, kiroVars, oaiSeen, tailVars>>

\* response.aiter_bytes() raises: the finally clause closes the upstream
\* response and the generator ends with the exception
OaiUpstreamRaises ==
    /\ oaiPhase = "streaming"
    /\ oaiPhase' = "aborted"
    /\ UNCHANGED <<curVars, cwVars, aqVars, gemVars, gwVars, msgVars, kiroVars, oai, oaiOut, oaiSeen, tailVars>>

(***************************************************************************)
(* Properties of the OpenAI-dialect stream.                                *)
(***************************************************************************)
\* C19: a stream that completed begins with a chunk whose delta has role
\* "assistant" and ends with a chunk carrying a finish_reason followed by
\* "data: [DONE]", whatever the upstream events were.
C19_RoleFirstDoneLast ==
    oaiPhase = "done" =>
        /\ Len(oaiOut) >= 3
        /\ oaiOut[1].role
        /\ oaiOut[Len(oaiOut) - 1].finish_reason # None
        /\ oaiOut[Len(oaiOut)] = DoneLine

\* C23: the chunks keep the order of the upstream events: a chunk that
\* carries data of an event never comes after a chunk that carries data of a
\* later event.
C23_UpstreamOrderKept ==
    \A i, j \in 1 .. Len(oaiOut) :
        i < j => \A a \in oaiOut[i].src, b \in oaiOut[j].src : a <= b

\* C34: the stream never holds two tool calls with the same name and the
\* same arguments: of the calls parsed from the text of the stream, no two
\* chunks carry the same function.
C34_NoDuplicateToolCalls ==
    \A i, j \in 1 .. Len(oaiOut) :
        (i < j /\ oaiOut[i].call # <<>>) => oaiOut[i].call # oaiOut[j].call

(***************************************************************************)
(* amq2api: the history of the CodeWhisperer request of create_message     *)
(* (converter.py convert_history_messages, message_processor.py).  The     *)
(* handler does not await between reading the body and the end of the      *)
(* history processing, so the translation is one step.  A content is the   *)
(* sequence of its symbols ("" is the empty sequence); the separator of a  *)
(* join is one symbol.                                                     *)
(***************************************************************************)
MaxClaudeMessages == 4

ClaudeMessage ==
    [role : {"user"}, content : {<<>>, <<"a">>, <<"b">>}]
      \cup [role : {"assistant"}, content : {<<"a">>}]

ClaudeMessages == UNION { [1 .. n -> ClaudeMessage] : n \in 1 .. MaxClaudeMessages }

IdleCw == [pc |-> "idle", messages |-> <<>>, history |-> <<>>, status |-> 0,
           upstream |-> 0]

CwInit == cw = IdleCw

\* history_messages = claude_req.messages[:-1] if len(...) > 1 else []
history_messages(messages) ==
    IF Len(messages) > 1 THEN SubSeq(messages, 1, Len(messages) - 1) ELSE <<>>

convert_history_messages(messages) ==
    [i \in 1 .. Len(messages) |->
        [key |-> IF messages[i].role = "user"
                 THEN "userInputMessage" ELSE "assistantResponseMessage",
         content |-> messages[i].content]]

\* sep.join(parts) on texts that are sequences of symbols; the separator is
\* one symbol
RECURSIVE join(_, _)
join(sep, parts) ==
    IF parts = <<>> THEN <<>>
    ELSE IF Len(parts) = 1 THEN Head(parts)
    ELSE Head(parts) \o <<sep>> \o join(sep, Tail(parts))

\* the loop of merge_user_messages: `if content: all_contents.append(content)`
all_contents(user_messages) ==
    SelectSeq([i \in 1 .. Len(user_messages) |-> user_messages[i].content],
              LAMBDA content : content # <<>>)

\* the contents one after the other, nothing between them
RECURSIVE concatenated(_)
concatenated(parts) ==
    IF parts = <<>> THEN <<>> ELSE Head(parts) \o concatenated(Tail(parts))

merged_content_unseparated(user_messages) == concatenated(all_contents(user_messages))

\* merged_content = "\n\n".join(all_contents)
merged_content(user_messages) == join("\n\n", all_contents(user_messages))

merge_user_messages(user_messages) ==
    [key |-> "userInputMessage", content |-> merged_content(user_messages)]

\* the ValueError never raised
validate_message_alternation_skipped(history, idx, last_role) == TRUE

\* TRUE when the validation returns, FALSE when it raises ValueError
RECURSIVE validate_message_alternation(_, _, _)
validate_message_alternation(history, idx, last_role) ==
    IF idx > Len(history) THEN TRUE
    ELSE LET current_role == IF history[idx].key = "userInputMessage"
                             THEN "user" ELSE "assistant"
         IN  IF last_role = current_role THEN FALSE
             ELSE validate_message_alternation(history, idx + 1, current_role)

\* the `for idx, msg in enumerate(history)` loop and the flush after it
RECURSIVE collect_history(_, _, _, _)
collect_history(history, idx, processed_history, pending_user_messages) ==
    IF idx > Len(history)
    THEN IF pending_user_messages # <<>>
         THEN Append(processed_history, merge_user_messages(pending_user_messages))
         ELSE processed_history
    ELSE IF history[idx].key = "userInputMessage"
    THEN collect_history(history, idx + 1, processed_history,
                         Append(pending_user_messages, history[idx]))
    ELSE LET flushed == IF pending_user_messages # <<>>
                        THEN Append(processed_history,
                                    merge_user_messages(pending_user_messages))
                        ELSE processed_history
         IN  collect_history(history, idx + 1, Append(flushed, history[idx]), <<>>)

\* the processed history, and whether the function returned (ok) or raised
process_claude_history_for_amazonq(history) ==
    LET processed_history == collect_history(history, 1, <<>>, <<>>)
    IN  [ok |-> history = <<>> \/ validate_message_alternation(processed_history, 1, None),
         history |-> processed_history]

\* POST /v1/messages on the Amazon Q channel, up to the end of the history
\* processing; a ValueError becomes HTTP 500 in the handler's except clause
CwRequestTranslated ==
    /\ cw.pc \in {"idle", "rejected", "failed", "forwarded"}
    /\ \E messages \in ClaudeMessages :
         LET history == convert_history_messages(history_messages(messages))
             r == process_claude_history_for_amazonq(history)
         IN  cw' = IF history # <<>> /\ ~r.ok
                   THEN [IdleCw EXCEPT !.pc = "rejected", !.messages = messages,
                                       !.status = 500]
                   ELSE [IdleCw EXCEPT !.pc = "translated", !.messages = messages,
                                       !.history = IF history # <<>>
                                                   THEN r.history ELSE history]
    /\ UNCHANGED <<curVars, aqVars, gemVars, gwVars, msgVars, kiroVars, oaiVars, tailVars>>

\* an account and its token are obtained and byte_stream posts final_request
CwForwarded ==
    /\ cw.pc = "translated"
    /\ cw' = [cw EXCEPT !.pc = "forwarded", !.upstream = @ + 1]
    /\ UNCHANGED <<curVars, aqVars, gemVars, gwVars, msgVars, kiroVars, oaiVars, tailVars>>

\* no account is available (503) or the token refresh fails (502)
CwNoAccount ==
    /\ cw.pc = "translated"
    /\ \E status \in {502, 503} :
         cw' = [cw EXCEPT !.pc = "failed", !.status = status]
    /\ UNCHANGED <<curVars, aqVars, gemVars, gwVars, msgVars, kiroVars, oaiVars, tailVars>>

(***************************************************************************)
(* Properties of the CodeWhisperer history.                                *)
(***************************************************************************)
\* no two neighbours of the history have the same key
Alternates(history) ==
    \A i \in 1 .. Len(history) - 1 : history[i].key # history[i + 1].key

\* the messages before the last one hold two assistant messages in a row:
\* merging user messages cannot make their history alternate
AssistantRun(messages) ==
    \E i \in 1 .. Len(messages) - 2 :
        messages[i].role = "assistant" /\ messages[i + 1].role = "assistant"

\* C20: the history of a request that was posted upstream has no two
\* consecutive entries of the same role, and a request whose history cannot
\* be made to alternate is rejected (HTTP 500) without any upstream request.
C20_ForwardedHistoryAlternates ==
    /\ cw.upstream > 0 => Alternates(cw.history)
    /\ (cw.pc # "idle" /\ AssistantRun(cw.messages))
          => (cw.pc = "rejected" /\ cw.status = 500 /\ cw.upstream = 0)

\* a request was posted whose history had consecutive user messages merged
C20_Witness ==
    /\ cw.pc = "forwarded"
    /\ Len(cw.history) >= 2
    /\ Len(cw.history) < Len(cw.messages) - 1

\* the messages before the last one
Earlier(messages) == SubSeq(messages, 1, Len(messages) - 1)

\* the positions of the earlier messages where a history entry begins: every
\* assistant message, and every user message that does not follow a user message
EntryStarts(messages) ==
    {i \in 1 .. Len(messages) - 1 :
        messages[i].role = "assistant" \/ i = 1 \/ messages[i - 1].role # "user"}

\* the last message of the run of user messages that begins at i
RunEnd(messages, i) ==
    CHOOSE j \in i .. Len(messages) - 1 :
        /\ \A k \in i .. j : messages[k].role = "user"
        /\ j = Len(messages) - 1 \/ messages[j + 1].role # "user"

\* the texts of messages i .. j that are not empty, in their order, with a
\* blank line between each two
RECURSIVE BlankLineJoined(_, _, _)
BlankLineJoined(messages, i, j) ==
    IF i > j THEN <<>>
    ELSE LET rest == BlankLineJoined(messages, i + 1, j)
         IN  IF messages[i].content = <<>> THEN rest
             ELSE IF rest = <<>> THEN messages[i].content
             ELSE messages[i].content \o <<"\n\n">> \o rest

\* C29: in the history of a translated request every run of consecutive user
\* messages is one user entry whose text is the texts of the run (those that
\* are not empty) in their original order with a blank line between them, and
\* every assistant message is an entry of its own with its text unchanged
C29_UserRunsJoinedByBlankLine ==
    (cw.pc \in {"translated", "forwarded"} /\ Len(cw.messages) > 1) =>
        LET starts == EntryStarts(cw.messages)
        IN  /\ Len(cw.history) = Cardinality(starts)
            /\ \A i \in starts :
                  LET entry == cw.history[Cardinality({s \in starts : s <= i})]
                  IN  IF cw.messages[i].role = "user"
                      THEN /\ entry.key = "userInputMessage"
                           /\ entry.content =
                                 BlankLineJoined(cw.messages, i, RunEnd(cw.messages, i))
                      ELSE /\ entry.key = "assistantResponseMessage"
                           /\ entry.content = cw.messages[i].content

\* messages [user a, user b, assistant a, user b] were posted with the history
\* [user "a\n\nb", assistant "a"]
C29_Witness ==
    /\ cw.pc = "forwarded"
    /\ cw.messages = << [role |-> "user", content |-> <<"a">>],
                        [role |-> "user", content |-> <<"b">>],
                        [role |-> "assistant", content |-> <<"a">>],
                        [role |-> "user", content |-> <<"b">>] >>
    /\ cw.history = << [key |-> "userInputMessage", content |-> <<"a", "\n\n", "b">>],
                       [key |-> "assistantResponseMessage", content |-> <<"a">>] >>

(***************************************************************************)
(* amq2api: the toolResults of the current message of the CodeWhisperer    *)
(* request (converter.py, the content blocks of the last Claude message)   *)
(* and their merge by toolUseId in create_message.  The content of a       *)
(* tool_result block is the sequence of its texts.                         *)
(***************************************************************************)
MaxBlocks == 3

ContentBlock ==
    [type : {"text"}, tool_use_id : {None}, content : {<<"a">>}]
      \cup [type : {"tool_result"}, tool_use_id : {"t1", "t2"},
            content : {<<>>, <<"a">>, <<"b">>}]

ContentBlocks == UNION { [1 .. n -> ContentBlock] : n \in 0 .. MaxBlocks }

\* the text put in place of a tool_result content without any actual text
CancelledText == "Tool use was cancelled by the user"

IdleCurrent == [pc |-> "idle", content |-> <<>>, toolResults |-> <<>>]

CurrentInit == cur = IdleCurrent

\* the tool_result branch of the loop over the blocks of the last message
RECURSIVE extract_tool_results(_)
extract_tool_results(content) ==
    IF content = <<>> THEN <<>>
    ELSE LET block == Head(content)
             amazonq_content == IF block.content = <<>>
                                THEN <<CancelledText>> ELSE block.content
         IN  IF block.type = "tool_result"
             THEN <<[toolUseId |-> block.tool_use_id, content |-> amazonq_content]>>
                    \o extract_tool_results(Tail(content))
             ELSE extract_tool_results(Tail(content))

\* every entry kept as it is
merge_tool_results_skipped(tool_results, merged_tool_results) ==
    merged_tool_results \o tool_results

\* the loop `for result in tool_results` of create_message
RECURSIVE merge_tool_results(_, _)
merge_tool_results(tool_results, merged_tool_results) ==
    IF tool_results = <<>> THEN merged_tool_results
    ELSE LET result == Head(tool_results)
             seen == \E i \in 1 .. Len(merged_tool_results) :
                        merged_tool_results[i].toolUseId = result.toolUseId
         IN  merge_tool_results(Tail(tool_results),
               IF seen
               THEN [i \in 1 .. Len(merged_tool_results) |->
                       IF merged_tool_results[i].toolUseId = result.toolUseId
                       THEN [merged_tool_results[i] EXCEPT !.content = @ \o result.content]
                       ELSE merged_tool_results[i]]
               ELSE Append(merged_tool_results, result))

\* POST /v1/messages on the Amazon Q channel: the last message is converted
\* and its toolResults are merged
CurrentMessageTranslated ==
    /\ cur.pc \in {"idle", "posted"}
    /\ \E content \in ContentBlocks :
         cur' = [pc |-> "translated", content |-> content,
                 toolResults |-> merge_tool_results(extract_tool_results(content), <<>>)]
    /\ UNCHANGED <<aqVars, gemVars, gwVars, msgVars, kiroVars, oaiVars, cwVars, tailVars>>

\* byte_stream posts final_request
CurrentMessagePosted ==
    /\ cur.pc = "translated"
    /\ cur' = [cur EXCEPT !.pc = "posted"]
    /\ UNCHANGED <<aqVars, gemVars, gwVars, msgVars, kiroVars, oaiVars, cwVars, tailVars>>

(***************************************************************************)
(* Properties of the current message's toolResults.                        *)
(***************************************************************************)
\* the texts of the tool_result blocks with this id, in the blocks' order
RECURSIVE TextsOf(_, _)
TextsOf(id, content) ==
    IF content = <<>> THEN <<>>
    ELSE LET block == Head(content)
         IN  (IF block.type = "tool_result" /\ block.tool_use_id = id
              THEN (IF block.content = <<>> THEN <<CancelledText>> ELSE block.content)
              ELSE <<>>) \o TextsOf(id, Tail(content))

\* C21: in the request that is posted, no two entries of the current
\* message's toolResults have the same toolUseId, and the entry of an id
\* holds the contents of all the blocks with that id, in their order.
C21_ToolResultsMergedById ==
    cur.pc # "idle" =>
        /\ \A i, j \in 1 .. Len(cur.toolResults) :
              cur.toolResults[i].toolUseId = cur.toolResults[j].toolUseId => i = j
        /\ \A i \in 1 .. Len(cur.toolResults) :
              cur.toolResults[i].content
                 = TextsOf(cur.toolResults[i].toolUseId, cur.content)
        /\ \A k \in 1 .. Len(cur.content) :
              cur.content[k].type = "tool_result" =>
                 \E i \in 1 .. Len(cur.toolResults) :
                    cur.toolResults[i].toolUseId = cur.content[k].tool_use_id

\* a request was posted whose last message had two tool_result blocks with
\* one id and different contents
C21_Witness ==
    /\ cur.pc = "posted"
    /\ \E k, l \in 1 .. Len(cur.content) :
          /\ k < l
          /\ cur.content[k].type = "tool_result"
          /\ cur.content[l].type = "tool_result"
          /\ cur.content[k].tool_use_id = cur.content[l].tool_use_id
          /\ cur.content[k].content # cur.content[l].content

(***************************************************************************)
(* Two request handlers writing one account row (main.py, account_manager): *)
(* a /v1/gemini/messages handler in its 429 branch and a /v1/messages       *)
(* handler that finds the account suspended.  Both took the account, and    *)
(* with it a copy of its `other` bag, when they selected it; X-Account-ID   *)
(* lets either endpoint name the same account.                              *)
(***************************************************************************)
RowWriters == {"w1", "w2"}

RowAccount == "g1"

IdleWriter ==
    [ pc      |-> "idle",
      kind    |-> None,        \* "gemini" | "messages"
      model   |-> None,        \* the provider model of the Gemini request
      other   |-> EmptyOther,  \* account.get("other") of the selected account
      models_data |-> [m \in {} |-> 0],  \* the quota snapshot it fetched
      status  |-> 0,           \* status_code of the HTTPException it raised
      began   |-> 0,           \* writes the row had seen when it was selected
      wrote   |-> 0,           \* position of this handler's write among the writes
      mark    |-> NoResetTime, \* resetTime of the exhaustion mark it made
      flagged |-> FALSE ]      \* it wrote the suspension record

LedgerInit ==
    ledger = [ db     |-> [a \in {RowAccount} |-> [enabled |-> TRUE, other |-> EmptyOther]],
               writes |-> 0,
               w      |-> [w \in RowWriters |-> IdleWriter] ]

\* account = get_account(specified_account_id), enabled checked
\* (main.py 291-296 and 489-495); other = account.get("other") (main.py 505)
WriterSelects(w) ==
    /\ ledger.w[w].pc = "idle"
    /\ ledger.db[RowAccount].enabled
    /\ \E kind \in {"gemini", "messages"}, model \in SnapshotModels :
         ledger' = [ledger EXCEPT !.w[w] =
            [IdleWriter EXCEPT !.pc = "selected", !.kind = kind,
                               !.model = IF kind = "gemini" THEN model ELSE None,
                               !.other = ledger.db[RowAccount].other,
                               !.began = ledger.writes]]
    /\ UNCHANGED <<coreVars, authVars, oreqVars, kpVars, epVars, cfgVars>>

\* the upstream answered 429 and models_data = await fetch_available_models
\* came back (main.py 560-570)
WriterFetchesSnapshot(w) ==
    /\ ledger.w[w].pc = "selected"
    /\ ledger.w[w].kind = "gemini"
    /\ \E models_data \in ModelsData :
         ledger' = [ledger EXCEPT !.w[w].pc = "fetched",
                                  !.w[w].models_data = models_data]
    /\ UNCHANGED <<coreVars, authVars, oreqVars, kpVars, epVars, cfgVars>>

\* the rest of the 429 branch of gemini_byte_stream (main.py 572-616):
\* update_account with the selection-time bag and the snapshot, then
\* mark_model_exhausted on the stored row unless it is a rate limit, then
\* raise HTTPException(429)
WriterStoresSnapshot(w) ==
    /\ ledger.w[w].pc = "fetched"
    /\ LET r == ledger.w[w]
           remaining_fraction == snapshot_fraction(r.models_data, r.model)
           reset_time == snapshot_reset_time(r.models_data, r.model, 0)
           credits_info == extract_credits_from_models_data(r.models_data)
           db1 == update_account(ledger.db, RowAccount,
                                 [r.other EXCEPT !.creditsInfo = credits_info])
           done == [r EXCEPT !.pc = "done", !.other = EmptyOther, !.status = 429,
                             !.models_data = [m \in {} |-> 0],
                             !.wrote = ledger.writes + 1]
       IN IF is_rate_limit(remaining_fraction)
          THEN ledger' = [ledger EXCEPT !.db = db1, !.writes = @ + 1, !.w[w] = done]
          ELSE ledger' = [ledger EXCEPT
                  !.db = update_account(db1, RowAccount,
                            mark_model_exhausted(db1[RowAccount].other, r.model, reset_time)),
                  !.writes = @ + 1,
                  !.w[w] = [done EXCEPT !.mark = reset_time]]
    /\ UNCHANGED <<coreVars, authVars, oreqVars, kpVars, epVars, cfgVars>>

\* TEMPORARILY_SUSPENDED in a 401/403 body (main.py 355-367): the suspension
\* record is put into the selection-time bag, the bag is written and
\* HTTPException(403) is raised
WriterSuspends(w) ==
    /\ ledger.w[w].pc = "selected"
    /\ ledger.w[w].kind = "messages"
    /\ ledger' = [ledger EXCEPT
            !.db = suspend_account(ledger.db, RowAccount, ledger.w[w].other),
            !.writes = @ + 1,
            !.w[w] = [@ EXCEPT !.pc = "done", !.other = EmptyOther, !.status = 403,
                               !.wrote = ledger.writes + 1, !.flagged = TRUE]]
    /\ UNCHANGED <<coreVars, authVars, oreqVars, kpVars, epVars, cfgVars>>

\* handler v selected the account before handler w wrote, and wrote after it
WroteOver(v, w) ==
    /\ ledger.w[w].pc = "done" /\ ledger.w[v].pc = "done"
    /\ ledger.w[v].began < ledger.w[w].wrote
    /\ ledger.w[w].wrote < ledger.w[v].wrote

\* what handler w wrote is in the stored row
StillStored(w) ==
    LET r == ledger.w[w]
        other == ledger.db[RowAccount].other
    IN /\ r.flagged => other.suspended
       /\ r.mark # NoResetTime =>
             /\ HasEntry(other, r.model)
             /\ other.creditsInfo[r.model].remainingFraction = 0
             /\ other.creditsInfo[r.model].resetTime = r.mark

\* C25: when two handlers write the same account's `other` bag concurrently,
\* the stored row keeps the exhaustion mark or suspension flag of the handler
\* that wrote first
C25_ConcurrentWritesBothKept ==
    \A v, w \in RowWriters : WroteOver(v, w) => StillStored(w)

\* the stored bag holds the quota snapshot, and for an exhausted model the mark
SnapshotStored(other, models_data, model) ==
    /\ \A m \in DOMAIN models_data :
          (models_data[m].hasFraction
             /\ (m # model \/ models_data[m].remainingFraction > RateLimitThreshold))
              => /\ HasEntry(other, m)
                 /\ other.creditsInfo[m].remainingFraction = models_data[m].remainingFraction
                 /\ other.creditsInfo[m].resetTime = models_data[m].resetTime
    /\ snapshot_fraction(models_data, model) <= RateLimitThreshold
          => /\ HasEntry(other, model)
             /\ other.creditsInfo[model].remainingFraction = 0
             /\ other.creditsInfo[model].resetTime = snapshot_reset_time(models_data, model, 0)

\* the step raises an HTTPException in handler w
RaisedBy(w) == ledger.w[w].status = 0 /\ ledger'.w[w].status # 0

\* C26: when a handler raises the error of a failure path that changes the
\* account (429 after a quota snapshot, 403 after a suspension), the row
\* already holds the write: the snapshot and the exhaustion mark, or the
\* suspension record with enabled = false
C26_WriteCommittedBeforeError ==
    [][\A w \in RowWriters :
          RaisedBy(w) =>
             IF ledger.w[w].kind = "gemini"
             THEN SnapshotStored(ledger'.db[RowAccount].other,
                                 ledger.w[w].models_data, ledger.w[w].model)
             ELSE /\ ~ledger'.db[RowAccount].enabled
                  /\ ledger'.db[RowAccount].other.suspended]_vars

\* one handler has raised 429 after marking a model exhausted and the other
\* has raised 403 after the suspension
C26_Witness ==
    \E v, w \in RowWriters :
       /\ ledger.w[v].status = 429 /\ ledger.w[v].mark # NoResetTime
       /\ ledger.w[w].status = 403 /\ ledger.w[w].flagged

(***************************************************************************)
(* get_auth_headers_for_account / get_account_with_token (auth.py): the    *)
(* JWT check of the stored accessToken, and the refresh when the token is  *)
(* absent or found expired.  Time is in seconds.  An accessToken is absent *)
(* (kind "absent"), a JWT whose payload decodes ("jwt", exp 0 when it has  *)
(* no exp claim), a string of three parts whose payload does not decode    *)
(* ("garbled"), or a string that is not of three parts ("opaque").         *)
(***************************************************************************)
AccessToken(kind, exp) == [kind |-> kind, exp |-> exp]

\* the instants the clock takes and the exp claims of the stored tokens
ClockInstants == {100, 130, 170, 200}

ExpClaims == {0, 100, 190, 400}

StoredTokens ==
    {AccessToken("jwt", e) : e \in ExpClaims}
    \cup {AccessToken("absent", 0), AccessToken("garbled", 0), AccessToken("opaque", 0)}

MaxAuthCalls == 2

AuthInit ==
    auth = [ pc           |-> "idle",
             now          |-> 100,
             accessToken  |-> AccessToken("absent", 0), \* the account's column
             bearer       |-> AccessToken("absent", 0), \* the token of the headers returned
             checked      |-> AccessToken("absent", 0), \* the token the check looked at
             refreshed    |-> FALSE,                    \* refresh_account_token was awaited
             calls        |-> 0 ]

\* PATCH /v2/accounts/{id} with accessToken (main.py 697-708)
AuthTokenStored ==
    /\ \E access_token \in StoredTokens :
         auth' = [auth EXCEPT !.accessToken = access_token]
    /\ UNCHANGED <<coreVars, ledgerVars, oreqVars, kpVars, epVars, cfgVars>>

\* the try block: split, base64 decode, json.loads, exp against datetime.now();
\* an exception is logged and leaves token_expired False
jwt_token_expired(access_token, t) ==
    CASE access_token.kind = "jwt"     -> access_token.exp # 0 /\ t >= access_token.exp
      [] access_token.kind = "garbled" -> FALSE
      [] OTHER                         -> FALSE

\* not access_token or token_expired
refresh_needed(access_token, t) ==
    access_token.kind = "absent" \/ jwt_token_expired(access_token, t)

\* get_auth_headers_for_account is called: the token is checked and returned,
\* or the refresh is started
AuthHeadersRequested ==
    /\ auth.pc \in {"idle", "returned", "failed"}
    /\ auth.calls < MaxAuthCalls
    /\ auth' = IF refresh_needed(auth.accessToken, auth.now)
               THEN [auth EXCEPT !.pc = "refreshing", !.calls = @ + 1,
                                 !.checked = auth.accessToken,
                                 !.bearer = AccessToken("absent", 0),
                                 !.refreshed = FALSE]
               ELSE [auth EXCEPT !.pc = "returned", !.calls = @ + 1,
                                 !.checked = auth.accessToken,
                                 !.bearer = auth.accessToken,
                                 !.refreshed = FALSE]
    /\ UNCHANGED <<coreVars, ledgerVars, oreqVars, kpVars, epVars, cfgVars>>

\* account = await refresh_account_token(account): the new token is stored
\* and returned
AuthRefreshed ==
    /\ auth.pc = "refreshing"
    /\ \E exp \in {e \in ExpClaims : e > auth.now} :
         LET new == AccessToken("jwt", exp)
         IN auth' = [auth EXCEPT !.pc = "returned", !.accessToken = new,
                                 !.bearer = new, !.refreshed = TRUE]
    /\ UNCHANGED <<coreVars, ledgerVars, oreqVars, kpVars, epVars, cfgVars>>

\* refresh_account_token raises TokenRefreshError
AuthRefreshFails ==
    /\ auth.pc = "refreshing"
    /\ auth' = [auth EXCEPT !.pc = "failed"]
    /\ UNCHANGED <<coreVars, ledgerVars, oreqVars, kpVars, epVars, cfgVars>>

\* the clock advances
AuthClockAdvances ==
    /\ \E t \in ClockInstants : t > auth.now /\ auth' = [auth EXCEPT !.now = t]
    /\ UNCHANGED <<coreVars, ledgerVars, oreqVars, kpVars, epVars, cfgVars>>

\* C27: a token is returned without a refresh only if it is a JWT with at
\* least 60 seconds left before its exp: an absent token or one whose exp is
\* earlier than now + 60 is refreshed first
C27_RefreshWithinSixtySeconds ==
    [][(auth'.pc = "returned" /\ auth.pc # "returned" /\ ~auth'.refreshed
        /\ auth'.checked.kind = "jwt" /\ auth'.checked.exp # 0)
          => auth'.checked.exp >= auth.now + 60]_vars

\* C28: a stored token whose JWT payload cannot be parsed is not returned
\* without a refresh
C28_UnparsedTokenRefreshed ==
    [][(auth'.pc = "returned" /\ auth.pc # "returned"
        /\ auth'.checked.kind = "garbled") => auth'.refreshed]_vars

(***************************************************************************)
(* ki2api build_codewhisperer_request (app.py; kiro2api request_builder.py *)
(* holds the same code): the history of the CodeWhisperer request built    *)
(* from the messages of a /v1/chat/completions request.  A text is the     *)
(* sequence of its symbols.                                                *)
(***************************************************************************)
MaxChatMessages == 4

ChatMessage ==
    [role : {"system"}, content : {<<"x">>}, tool_calls : {FALSE}]
      \cup [role : {"user", "tool"}, content : {<<>>, <<"x">>}, tool_calls : {FALSE}]
      \cup [role : {"assistant"}, content : {<<>>, <<"x">>}, tool_calls : {FALSE}]
      \cup [role : {"assistant"}, content : {<<>>}, tool_calls : {TRUE}]

ChatMessages == UNION { [1 .. n -> ChatMessage] : n \in 1 .. MaxChatMessages }

IdleBuild == [pc |-> "idle", messages |-> <<>>, history |-> <<>>, status |-> 0]

BuildInit == oreq = IdleBuild

\* the messages of role user, assistant or tool, in their order
conversation_messages(messages) ==
    SelectSeq(messages, LAMBDA m : m.role \in {"user", "assistant", "tool"})

\* str.strip() on a text whose only whitespace symbols are newlines
RECURSIVE strip(_)
strip(text) ==
    IF text = <<>> THEN <<>>
    ELSE IF Head(text) = "\n" THEN strip(Tail(text))
    ELSE IF text[Len(text)] = "\n" THEN strip(SubSeq(text, 1, Len(text) - 1))
    ELSE text

\* `x or default` on texts
text_or(text, default) == IF text # <<>> THEN text ELSE <<default>>

\* the first loop: ("user", content) and ("assistant", content) pairs, a tool
\* message joined with the user message that follows it
RECURSIVE processed_messages(_, _)
processed_messages(earlier, i) ==
    IF i > Len(earlier) THEN <<>>
    ELSE LET m == earlier[i]
         IN  CASE m.role = "user" ->
                    <<[role |-> "user", content |-> text_or(m.content, "Continue")]>>
                      \o processed_messages(earlier, i + 1)
               [] m.role = "assistant" ->
                    <<[role |-> "assistant",
                       content |-> IF m.tool_calls THEN <<"[Called]">>
                                   ELSE text_or(m.content, "I understand.")]>>
                      \o processed_messages(earlier, i + 1)
               [] OTHER ->
                    LET formatted_tool_result ==
                            <<"[Tool result]">> \o text_or(m.content, "[Tool executed]")
                    IN  IF i + 1 <= Len(earlier)
                           /\ earlier[i + 1].role = "user"
                        THEN <<[role |-> "user",
                                content |-> strip(formatted_tool_result \o <<"\n">>
                                                  \o earlier[i + 1].content)]>>
                               \o processed_messages(earlier, i + 2)
                        ELSE <<[role |-> "user", content |-> formatted_tool_result]>>
                               \o processed_messages(earlier, i + 1)

userInputMessage(content) == [key |-> "userInputMessage", content |-> content]

assistantResponseMessage(content) == [key |-> "assistantResponseMessage", content |-> content]

\* the user entry with no entry put after it when no assistant message follows
user_pair_without_placeholder(processed, i) ==
    IF i + 1 <= Len(processed) /\ processed[i + 1].role = "assistant"
    THEN <<userInputMessage(processed[i].content),
           assistantResponseMessage(processed[i + 1].content)>>
    ELSE <<userInputMessage(processed[i].content)>>

\* the entries appended for the user message at i: the message and the
\* assistant response that follows it, or the placeholder
user_pair(processed, i) ==
    IF i + 1 <= Len(processed) /\ processed[i + 1].role = "assistant"
    THEN <<userInputMessage(processed[i].content),
           assistantResponseMessage(processed[i + 1].content)>>
    ELSE <<userInputMessage(processed[i].content),
           assistantResponseMessage(<<"I understand.">>)>>

\* the second loop ("Build history pairs")
RECURSIVE history_pairs(_, _)
history_pairs(processed, i) ==
    IF i > Len(processed) THEN <<>>
    ELSE IF processed[i].role = "user"
    THEN user_pair(processed, i)
           \o history_pairs(processed,
                            IF i + 1 <= Len(processed) /\ processed[i + 1].role = "assistant"
                            THEN i + 2 ELSE i + 1)
    ELSE <<userInputMessage(<<"Continue">>),
           assistantResponseMessage(processed[i].content)>>
           \o history_pairs(processed, i + 1)

\* the history of build_codewhisperer_request
build_history(messages) ==
    LET conversation == conversation_messages(messages)
    IN  IF Len(conversation) > 1
        THEN history_pairs(
                 processed_messages(SubSeq(conversation, 1, Len(conversation) - 1), 1), 1)
        ELSE <<>>

\* POST /v1/chat/completions: the CodeWhisperer request is built, or the
\* request is refused with 400 when it has no conversation message
ChatRequestBuilt ==
    /\ oreq.pc = "idle"
    /\ \E messages \in ChatMessages :
         oreq' = IF conversation_messages(messages) = <<>>
                 THEN [IdleBuild EXCEPT !.pc = "refused", !.messages = messages,
                                        !.status = 400]
                 ELSE [IdleBuild EXCEPT !.pc = "built", !.messages = messages,
                                        !.history = build_history(messages)]
    /\ UNCHANGED <<coreVars, ledgerVars, authVars, kpVars, epVars, cfgVars>>

\* the request is answered
ChatRequestAnswered ==
    /\ oreq.pc \in {"built", "refused"}
    /\ oreq' = IdleBuild
    /\ UNCHANGED <<coreVars, ledgerVars, authVars, kpVars, epVars, cfgVars>>

\* the user, assistant and tool messages before the last one
Conversation(messages) ==
    LET conversation == conversation_messages(messages)
    IN  SubSeq(conversation, 1, Len(conversation) - 1)

\* the positions of the conversation that give a user entry: a user message,
\* or a tool message that no user message follows
UserEntryAt(c, i) ==
    \/ c[i].role = "user"
    \/ c[i].role = "tool" /\ (i = Len(c) \/ c[i + 1].role # "user")

\* the assistant messages that follow no user entry
OrphanAt(c, i) ==
    c[i].role = "assistant" /\ (i = 1 \/ c[i - 1].role = "assistant")

\* the text the history gives for an assistant message
AssistantText(m) ==
    IF m.tool_calls THEN <<"[Called]">>
    ELSE IF m.content = <<>> THEN <<"I understand.">> ELSE m.content

\* C30: the history built from any message list is a sequence of pairs, a
\* user entry and then an assistant entry; the assistant entry after a user
\* entry that no assistant message follows is the placeholder "I understand.",
\* and an assistant message that follows no user entry is given the user
\* entry "Continue"
C30_HistoryOfPairs ==
    oreq.pc = "built" =>
        LET c == Conversation(oreq.messages)
            h == oreq.history
            starts == {i \in 1 .. Len(c) : UserEntryAt(c, i) \/ OrphanAt(c, i)}
        IN  /\ Len(h) = 2 * Cardinality(starts)
            /\ \A k \in 1 .. Len(h) :
                  h[k].key = IF k % 2 = 1 THEN "userInputMessage"
                             ELSE "assistantResponseMessage"
            /\ \A i \in starts :
                  LET k == 2 * Cardinality({s \in starts : s <= i})
                  IN  IF OrphanAt(c, i)
                      THEN h[k - 1].content = <<"Continue">>
                           /\ h[k].content = AssistantText(c[i])
                      ELSE IF i < Len(c) /\ c[i + 1].role = "assistant"
                      THEN h[k].content = AssistantText(c[i + 1])
                      ELSE h[k].content = <<"I understand.">>

\* a request was built whose history holds a placeholder after a user message
\* that another user message follows
C30_Witness ==
    /\ oreq.pc = "built"
    /\ Len(oreq.messages) = 4
    /\ \A i \in 1 .. 3 : oreq.messages[i].role = "user"
                         /\ oreq.messages[i].content = <<"x">>
    /\ Len(oreq.history) = 6
    /\ oreq.history[2] = assistantResponseMessage(<<"I understand.">>)

(***************************************************************************)
(* ki2api CodeWhispererStreamParser.parse (parsers.py; kiro2api            *)
(* parsers/stream_parser.py holds the same code).  The buffer is a         *)
(* sequence of bytes; a step is one call up to its loop, or one iteration  *)
(* of the `while len(self.buffer) >= 12` loop.                             *)
(***************************************************************************)
\* total_len, header_len above this are refused
MaxFrameLength == 2000000

max_errors == 5

MaxBuffer == 36

MaxIterations == 8

\* a frame without headers whose payload is {} ; one whose payload is { ;
\* a prelude with the total length 2031616; a prelude of zeros; a prelude
\* with the total length 5
FrameChunks ==
    { <<0, 0, 0, 18, 0, 0, 0, 0, 0, 0, 0, 0, 123, 125, 0, 0, 0, 0>>,
      <<0, 0, 0, 17, 0, 0, 0, 0, 0, 0, 0, 0, 123, 0, 0, 0, 0>>,
      <<0, 31, 0, 0, 0, 0, 0, 0, 0, 0, 0, 0>>,
      <<0, 0, 0, 0, 0, 0, 0, 0, 0, 0, 0, 0>>,
      <<0, 0, 0, 5, 0, 0, 0, 0, 0, 0, 0, 0>> }

\* struct.unpack('>I', b[i:i+4])
unpack_uint32(b, i) ==
    ((b[i] * 256 + b[i + 1]) * 256 + b[i + 2]) * 256 + b[i + 3]

\* b[i:j] of Python, i and j counted from 0
Slice(b, i, j) ==
    LET lo == IF i < 0 THEN 0 ELSE i
        hi == IF j > Len(b) THEN Len(b) ELSE j
    IN  IF hi <= lo THEN <<>> ELSE SubSeq(b, lo + 1, hi)

\* payload_str[payload_str.find('{'):], or <<>> when there is no {
RECURSIVE from_first_brace(_)
from_first_brace(text) ==
    IF text = <<>> THEN <<>>
    ELSE IF Head(text) = 123 THEN text
    ELSE from_first_brace(Tail(text))

\* json.loads succeeds on the text; of the texts the payloads of FrameChunks
\* give, {} is JSON and { is not
json_loads_ok(text) == text = <<123, 125>>

ParserInit ==
    kp = [ pc          |-> "idle",
           buffer      |-> <<>>,
           error_count |-> 0,
           events      |-> 0,     \* len(events) of the call
           iterations  |-> 0 ]    \* iterations of the loop made by the call

\* parse(chunk) up to the loop: the chunk is appended; with fewer than 12
\* bytes the call returns []
ParserFed ==
    /\ kp.pc = "idle"
    /\ \E chunk \in FrameChunks, n \in {12, 17, 18} :
         /\ n <= Len(chunk)
         /\ Len(kp.buffer) + n <= MaxBuffer
         /\ kp' = [kp EXCEPT !.buffer = @ \o SubSeq(chunk, 1, n),
                             !.pc = IF Len(kp.buffer) + n < 12 THEN "idle" ELSE "loop",
                             !.events = 0, !.iterations = 0]
    /\ UNCHANGED <<coreVars, ledgerVars, authVars, oreqVars, epVars, cfgVars>>

\* the `while` test fails or the loop breaks: `if events: error_count = 0`
\* and the call returns
ParserReturned(p) ==
    [p EXCEPT !.pc = "idle", !.error_count = IF p.events > 0 THEN 0 ELSE @]

\* the prelude is refused: eight bytes are dropped and the error is counted
refuse_prelude(p) ==
    LET error_count == p.error_count + 1
    IN  [p EXCEPT !.buffer = IF error_count > max_errors THEN <<>>
                             ELSE Slice(p.buffer, 8, Len(p.buffer)),
                  !.error_count = error_count]

\* one pass through the body of the loop
parse_iteration(p) ==
    LET total_len == unpack_uint32(p.buffer, 1)
        header_len == unpack_uint32(p.buffer, 5)
        frame == Slice(p.buffer, 0, total_len)
        rest == Slice(p.buffer, total_len, Len(p.buffer))
        payload_start == 8 + header_len
        payload_end == total_len - 4
        payload == Slice(frame, payload_start, payload_end)
    IN  IF total_len > MaxFrameLength \/ header_len > MaxFrameLength
        THEN refuse_prelude(p)
        ELSE IF Len(p.buffer) < total_len
        THEN ParserReturned(p)
        ELSE IF payload_start >= payload_end \/ payload_end > Len(frame)
        THEN [p EXCEPT !.buffer = rest]
        ELSE IF json_loads_ok(from_first_brace(payload))
        THEN [p EXCEPT !.buffer = rest, !.events = @ + 1]
        ELSE [p EXCEPT !.buffer = rest]

\* the loop test and, when it holds, one iteration
ParserIteration ==
    /\ kp.pc = "loop"
    /\ kp.iterations < MaxIterations
    /\ kp' = IF Len(kp.buffer) < 12
             THEN ParserReturned(kp)
             ELSE [parse_iteration(kp) EXCEPT !.iterations = kp.iterations + 1]
    /\ UNCHANGED <<coreVars, ledgerVars, authVars, oreqVars, epVars, cfgVars>>

\* the step is an iteration of the loop on a buffer of at least 12 bytes
IterationStep == kp.pc = "loop" /\ kp'.iterations = kp.iterations + 1

\* C32: an iteration that finds a total length or headers length above the
\* upper bound drops exactly one byte of the buffer and adds one to the error
\* counter, or empties the buffer when the counter passes the threshold
C32_OversizeAdvancesOneByte ==
    [][(IterationStep
        /\ (unpack_uint32(kp.buffer, 1) > MaxFrameLength
            \/ unpack_uint32(kp.buffer, 5) > MaxFrameLength))
          => /\ kp'.error_count = kp.error_count + 1
             /\ IF kp'.error_count > max_errors
                THEN kp'.buffer = <<>>
                ELSE kp'.buffer = Tail(kp.buffer)]_vars

\* C36: every iteration of the loop takes at least one byte from the buffer
\* or leaves the loop
C36_IterationConsumesOrExits ==
    [][IterationStep => (Len(kp'.buffer) < Len(kp.buffer) \/ kp'.pc = "idle")]_vars

(***************************************************************************)
(* amq2api: EventStreamParser.parse_stream (event_stream_parser.py), the   *)
(* framing of the upstream byte stream.  The generator pulls one chunk,    *)
(* appends it to its buffer and yields every complete message of the       *)
(* buffer before it pulls the next chunk.  ep.frames, ep.split and         *)
(* ep.joined record what was sent and how it was cut; the parser reads     *)
(* ep.buffer only.                                                         *)
(***************************************************************************)
MaxFrames == 3

\* a frame without headers: prelude (total length, headers length, prelude
\* CRC), payload, message CRC
EventFrame(payload) ==
    <<0, 0, 0, 16 + Len(payload)>> \o <<0, 0, 0, 0>> \o <<1, 2, 3, 4>>
      \o payload \o <<5, 6, 7, 8>>

\* frames with no payload, with the payload "{}" and with the payload "x"
WellFormedFrames == {EventFrame(<<>>), EventFrame(<<123, 125>>), EventFrame(<<120>>)}

FrameSequences == UNION { [1 .. n -> WellFormedFrames] : n \in 1 .. MaxFrames }

EpInit ==
    ep = [pc |-> "idle", frames |-> <<>>, sent |-> 0, buffer |-> <<>>,
          events |-> <<>>, split |-> FALSE, joined |-> FALSE]

NoMessage == [headers |-> <<>>, payload |-> [kind |-> "None", data |-> <<>>],
              total_length |-> 0]

\* parse_message: None for data shorter than 16 bytes or than its total
\* length; the payload is None when empty, the decoded JSON when it parses,
\* the bytes otherwise
parse_message(data) ==
    IF Len(data) < 16 THEN NoMessage
    ELSE LET total_length == unpack_uint32(data, 1)
             headers_length == unpack_uint32(data, 5)
             headers_data == Slice(data, 12, 12 + headers_length)
             payload_data == Slice(data, 12 + headers_length, total_length - 4)
         IN  IF Len(data) < total_length THEN NoMessage
             ELSE [headers |-> headers_data,
                   payload |-> [kind |-> IF payload_data = <<>> THEN "None"
                                         ELSE IF json_loads_ok(payload_data)
                                         THEN "dict" ELSE "bytes",
                                data |-> payload_data],
                   total_length |-> total_length]

has_complete_message_unchecked(buffer, total_length) == TRUE

\* `if len(buffer) < total_length: break`
has_complete_message(buffer, total_length) == Len(buffer) >= total_length

\* the loop `while len(buffer) >= 12`
RECURSIVE read_messages(_, _)
read_messages(buffer, events) ==
    IF Len(buffer) < 12 THEN [buffer |-> buffer, events |-> events]
    ELSE LET total_length == unpack_uint32(buffer, 1)
             message_data == Slice(buffer, 0, total_length)
             message == parse_message(message_data)
         IN  IF ~has_complete_message(buffer, total_length)
             THEN [buffer |-> buffer, events |-> events]
             ELSE read_messages(Slice(buffer, total_length, Len(buffer)),
                                IF message # NoMessage
                                THEN Append(events, message) ELSE events)

\* the bytes of the frames, in order
RECURSIVE byte_stream(_)
byte_stream(frames) ==
    IF frames = <<>> THEN <<>> ELSE Head(frames) \o byte_stream(Tail(frames))

\* the offset in the stream at which the k-th frame ends
RECURSIVE frame_end(_, _)
frame_end(frames, k) ==
    IF k = 0 THEN 0 ELSE frame_end(frames, k - 1) + Len(frames[k])

FrameEnds(frames) == {frame_end(frames, k) : k \in 0 .. Len(frames)}

\* the upstream response begins: its frames are fixed
EpStreamOpened ==
    /\ ep.pc = "idle"
    /\ \E frames \in FrameSequences :
         ep' = [ep EXCEPT !.pc = "reading", !.frames = frames]
    /\ UNCHANGED <<coreVars, ledgerVars, authVars, oreqVars, kpVars, cfgVars>>

\* `async for chunk in byte_stream`: the next n bytes arrive as one chunk
EpChunkReceived ==
    /\ ep.pc = "reading"
    /\ LET stream == byte_stream(ep.frames)
       IN  \E n \in 1 .. Len(stream) - ep.sent :
             LET chunk == SubSeq(stream, ep.sent + 1, ep.sent + n)
                 r == read_messages(ep.buffer \o chunk, ep.events)
                 ends == FrameEnds(ep.frames)
             IN  ep' = [ep EXCEPT !.sent = @ + n,
                                  !.buffer = r.buffer,
                                  !.events = r.events,
                                  !.split = @ \/ (ep.sent + n) \notin ends,
                                  !.joined = @ \/ \E e \in ends :
                                                ep.sent < e /\ e < ep.sent + n]
    /\ UNCHANGED <<coreVars, ledgerVars, authVars, oreqVars, kpVars, cfgVars>>

\* the byte stream is exhausted
EpStreamEnds ==
    /\ ep.pc = "reading"
    /\ ep.sent = Len(byte_stream(ep.frames))
    /\ ep' = [ep EXCEPT !.pc = "done"]
    /\ UNCHANGED <<coreVars, ledgerVars, authVars, oreqVars, kpVars, cfgVars>>

\* the number of frames whose last byte has arrived
ArrivedFrames == Cardinality({k \in 1 .. Len(ep.frames) : frame_end(ep.frames, k) <= ep.sent})

\* C35: however the bytes of a well-formed stream are cut into chunks, the
\* events yielded so far are the messages of the frames that have arrived
\* completely, in order: no partition changes the events and no frame gives
\* an event before its last byte has arrived.
C35_EventsIndependentOfChunking ==
    ep.events = [k \in 1 .. ArrivedFrames |-> parse_message(ep.frames[k])]

\* a stream of several frames was read to its end in chunks of which one
\* ended inside a frame and one carried the end of a frame and more
C35_Witness ==
    /\ ep.pc = "done"
    /\ ep.split /\ ep.joined
    /\ Len(ep.frames) = MaxFrames
    /\ Len(ep.events) = MaxFrames

(***************************************************************************)
(* amq2api: the global configuration and its asyncio.Lock (config.py).     *)
(* The tasks run on one event loop and give up control only at an await    *)
(* that suspends.  `async with _config_lock` on a free lock does not       *)
(* suspend, and neither body suspends except at the                        *)
(* `await read_global_config()` inside update_global_config, so a call     *)
(* that finds the lock free runs up to that await, or to its return, in    *)
(* one step.  The lock is not reentrant.                                   *)
(***************************************************************************)
MaxConfigCalls == 4

ConfigTasks == {"c1", "c2", "c3"}

\* the access_token argument of update_global_config (None: not given); the
\* expires_in argument is given with it
AccessTokenArgs == {None, "tokenA", "tokenB"}

NoCall == [pc |-> "idle", fn |-> None, access_token |-> None]

ConfigInit ==
    cfg = [ loaded       |-> FALSE,      \* _global_config is not None
            access_token |-> None,       \* _global_config.access_token
            cache        |-> None,       \* access_token in the token cache file
            lock         |-> None,       \* the task that holds _config_lock
            task         |-> [t \in ConfigTasks |-> NoCall],
            calls        |-> 0 ]

\* _config_lock.locked()
locked(c) == c.lock # None

\* the body of read_global_config under the lock: the configuration is built
\* from the environment and the token cache when there is none yet
load_global_config(c) ==
    IF c.loaded THEN c
    ELSE [c EXCEPT !.loaded = TRUE, !.access_token = c.cache]

\* the body of update_global_config under the lock once the configuration
\* is there: the fields given are set and the cache file is written
store_global_config(c, access_token) ==
    LET new_token == IF access_token # None THEN access_token ELSE c.access_token
    IN  [c EXCEPT !.access_token = new_token,
                  !.cache = IF access_token # None THEN new_token ELSE @]

\* a task awaits the lock while it is held: it is suspended in acquire()
suspended_in_acquire(c, t, fn, access_token) ==
    [c EXCEPT !.task[t] = [pc |-> "waiting", fn |-> fn, access_token |-> access_token]]

returned(c, t, fn) ==
    [c EXCEPT !.task[t] = [pc |-> "done", fn |-> fn, access_token |-> None]]

\* await read_global_config()
ReadGlobalConfigCalled(t) ==
    /\ cfg.task[t].pc = "idle"
    /\ cfg.calls < MaxConfigCalls
    /\ LET c == [cfg EXCEPT !.calls = @ + 1]
       IN  cfg' = IF locked(c)
                  THEN suspended_in_acquire(c, t, "read_global_config", None)
                  ELSE returned(load_global_config(c), t, "read_global_config")
    /\ UNCHANGED <<coreVars, ledgerVars, authVars, oreqVars, kpVars, epVars>>

\* await update_global_config(access_token, ...): with the lock taken and no
\* configuration yet, the task awaits read_global_config, whose
\* `async with _config_lock` finds the lock held, by this very task
UpdateGlobalConfigCalled(t) ==
    /\ cfg.task[t].pc = "idle"
    /\ cfg.calls < MaxConfigCalls
    /\ \E access_token \in AccessTokenArgs :
         LET c == [cfg EXCEPT !.calls = @ + 1]
         IN  cfg' = IF locked(c)
                    THEN suspended_in_acquire(c, t, "update_global_config", access_token)
                    ELSE IF ~c.loaded
                    THEN suspended_in_acquire([c EXCEPT !.lock = t], t,
                                              "update_global_config", access_token)
                    ELSE returned(store_global_config(c, access_token), t,
                                  "update_global_config")
    /\ UNCHANGED <<coreVars, ledgerVars, authVars, oreqVars, kpVars, epVars>>

\* the caller goes on after the call returned
ConfigCallerContinues(t) ==
    /\ cfg.task[t].pc = "done"
    /\ cfg' = [cfg EXCEPT !.task[t] = NoCall]
    /\ UNCHANGED <<coreVars, ledgerVars, authVars, oreqVars, kpVars, epVars>>

\* C40: every call of read_global_config and update_global_config that has
\* begun returns: no task stays suspended on the configuration lock for ever.
C40_ConfigCallsReturn ==
    \A t \in ConfigTasks :
        (cfg.task[t].pc = "waiting") ~> (cfg.task[t].pc = "done")

Init ==
    AQInit /\ GemInit /\ GWInit /\ MsgInit /\ KiroInit /\ OaiInit /\ CwInit /\ CurrentInit
    /\ LedgerInit /\ AuthInit /\ BuildInit /\ ParserInit /\ EpInit /\ ConfigInit

NextAmazonQ ==
    \/ HandleMessageStart
    \/ HandleContentBlockDelta
    \/ HandleAssistantResponseEnd
    \/ HandleToolUseEvent
    \/ HandleUndecodedFrame
    \/ HandleStreamEnd

SpecAmazonQ == Init /\ [][NextAmazonQ]_vars

NextGeminiStream ==
    \/ GeminiMessageStart
    \/ GeminiDataEvent
    \/ GeminiSkippedEvent
    \/ GeminiUpstreamRaises
    \/ GeminiStreamEnd

SpecGeminiStream == Init /\ [][NextGeminiStream]_vars

NextGateway ==
    \/ \E h \in Handlers :
          \/ GeminiRequestSpecified(h)
          \/ GeminiRequestRouted(h)
          \/ GeminiAuthorized(h)
          \/ GeminiAuthFails(h)
          \/ GeminiUpstream200(h)
          \/ GeminiUpstream429(h)
          \/ GeminiUpstreamError(h)
          \/ GeminiFetchFails(h)
          \/ GeminiQuotaSnapshot(h)
          \/ GeminiClassify429(h)
    \/ Tick
    \/ AdminSetEnabled

SpecGateway == Init /\ [][NextGateway]_vars

NextMessages ==
    \/ \E h \in MsgHandlers :
          \/ MessageReceived(h)
          \/ MessageAccount(h)
          \/ MessageTokenRefreshed(h)
          \/ MessageTokenRefreshFails(h)
          \/ MessageUpstream(h)
          \/ MessageRetried(h)
          \/ MessageRefreshFails(h)
          \/ MessageRetryUpstream(h)
    \/ AdminPatchEnabled
    \/ Tick

SpecMessages == Init /\ [][NextMessages]_vars

NextKiro ==
    \/ KiroCallReceived
    \/ KiroAnswered
    \/ KiroTransportError
    \/ KiroCacheAges
    \/ KiroResetExhausted

SpecKiro == Init /\ [][NextKiro]_vars

NextOpenAIStream ==
    \/ OaiEvent
    \/ OaiEndOfStream
    \/ OaiUpstreamRaises

SpecOpenAIStream == Init /\ [][NextOpenAIStream]_vars

NextHistory ==
    \/ CwRequestTranslated
    \/ CwForwarded
    \/ CwNoAccount

SpecHistory == Init /\ [][NextHistory]_vars

NextToolResults ==
    \/ CurrentMessageTranslated
    \/ CurrentMessagePosted

SpecToolResults == Init /\ [][NextToolResults]_vars

NextLedger ==
    \/ \E w \in RowWriters : WriterSelects(w)
    \/ \E w \in RowWriters : WriterFetchesSnapshot(w)
    \/ \E w \in RowWriters : WriterStoresSnapshot(w)
    \/ \E w \in RowWriters : WriterSuspends(w)

SpecLedger == Init /\ [][NextLedger]_vars

NextAuth ==
    \/ AuthTokenStored
    \/ AuthHeadersRequested
    \/ AuthRefreshed
    \/ AuthRefreshFails
    \/ AuthClockAdvances

SpecAuth == Init /\ [][NextAuth]_vars

NextBuild ==
    \/ ChatRequestBuilt
    \/ ChatRequestAnswered

SpecBuild == Init /\ [][NextBuild]_vars

NextParser ==
    \/ ParserFed
    \/ ParserIteration

SpecParser == Init /\ [][NextParser]_vars

NextEventStream ==
    \/ EpStreamOpened
    \/ EpChunkReceived
    \/ EpStreamEnds

SpecEventStream == Init /\ [][NextEventStream]_vars

NextConfig ==
    \/ \E t \in ConfigTasks : ReadGlobalConfigCalled(t)
    \/ \E t \in ConfigTasks : UpdateGlobalConfigCalled(t)
    \/ \E t \in ConfigTasks : ConfigCallerContinues(t)

\* the event loop runs a task that can run
SpecConfig == Init /\ [][NextConfig]_vars /\ WF_vars(NextConfig)

====
